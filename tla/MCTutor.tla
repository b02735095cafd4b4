------------------------------- MODULE MCTutor -------------------------------
(***************************************************************************)
(* Tutor, a small instance: a tick is a minute.  A 429 arms at most one on *)
(* an OpenAI-compatible host and two on Anthropic's, and a sleep is cut to *)
(* one and a half (providers.py:42, 206, 313).                             *)
(***************************************************************************)
EXTENDS Tutor, TLC

CONSTANTS compatible, anthropic

LongestOf == (compatible :> 1) @@ (anthropic :> 2)
AttemptsOf == (1 :> 2) @@ (2 :> 1)
=============================================================================
