------------------------ MODULE MCConsoleChallenges ------------------------
(* Two pages and room for two pending authorizations. *)
EXTENDS ConsoleChallenges
=============================================================================
