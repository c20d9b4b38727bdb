----------------------------- MODULE MCCaptcha -----------------------------
(* Instances of Captcha for TLC.                                           *)
EXTENDS Captcha, TLC

\* Request threads, and scenes, are interchangeable.
Symmetry == Permutations(Procs) \cup Permutations(Scenes)
=============================================================================
