---------------------------- MODULE MCConnections ----------------------------
(* Instance of Sessions, Connections and RateLimiter: two addresses, two     *)
(* people, two requests at a time, two states of the provider's list, which  *)
(* has one repository to a page, two clients for two windows.                *)
EXTENDS Connections, TLC

CONSTANTS r1, r2

MCSnapshot == <<<<r1, r2>>, <<r2>>>>
Symmetric == Permutations(Handler) \cup Permutations(Person) \cup Permutations(Email)
             \cup Permutations(Token) \cup Permutations(Client) \cup Permutations(ConnectFlow)
=============================================================================
