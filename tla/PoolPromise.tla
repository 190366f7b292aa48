---------------------------- MODULE PoolPromise ----------------------------
(***************************************************************************)
(* What a pool cache promises to its requests, as if eviction were one     *)
(* step: an epoch of a connection ends at once and takes the shared pool   *)
(* with it, never to come back; in an epoch at most one pool is shared,    *)
(* and who asked in it works on that pool as long as the epoch lasts.      *)
(* A request that an eviction has overtaken still gets a pool of its own   *)
(* epoch, never one of another.                                            *)
(***************************************************************************)
EXTENDS Naturals

CONSTANTS
  Requests,
  PoolsOf(_),  \* the pools that can be built in an epoch
  None

VARIABLES
  epoch,   \* the epoch of the connection, 0 between two of them
  last,    \* the last epoch there was
  shared,  \* the pool of the epoch, None until it is built
  pin,     \* per request: the epoch it asked in, 0 when it asks for nothing
  using    \* per request: the pool it works on

vars == <<epoch, last, shared, pin, using>>

Init ==
  /\ epoch = 0 /\ last = 0
  /\ shared = None
  /\ pin = [r \in Requests |-> 0]
  /\ using = [r \in Requests |-> None]

\* A request belongs to the epoch, or begins the next one.
Ask(r) ==
  /\ pin[r] = 0
  /\ epoch' = IF epoch = 0 THEN last + 1 ELSE epoch
  /\ last' = epoch'
  /\ pin' = [pin EXCEPT ![r] = epoch']
  /\ UNCHANGED <<shared, using>>

\* The pool is built for the epoch, by a request that asked in it.
Share ==
  /\ shared = None
  /\ \E r \in Requests : pin[r] = epoch /\ using[r] = None
  /\ epoch # 0
  /\ shared' \in PoolsOf(epoch)
  /\ UNCHANGED <<epoch, last, pin, using>>

\* A request takes the shared pool, or any of its epoch once that is over.
Take(r) ==
  /\ pin[r] # 0 /\ using[r] = None
  /\ using' = [using EXCEPT ![r] = using'[r]]
  /\ using'[r] \in IF pin[r] = epoch THEN {shared} \ {None} ELSE PoolsOf(pin[r])
  /\ UNCHANGED <<epoch, last, shared, pin>>

\* The request has its result, or fails.
Leave(r) ==
  /\ pin[r] # 0
  /\ pin' = [pin EXCEPT ![r] = 0]
  /\ using' = [using EXCEPT ![r] = None]
  /\ UNCHANGED <<epoch, last, shared>>

Evict ==
  /\ epoch # 0
  /\ epoch' = 0
  /\ shared' = None
  /\ UNCHANGED <<last, pin, using>>

Next ==
  \/ \E r \in Requests : Ask(r) \/ Take(r) \/ Leave(r)
  \/ Share \/ Evict

Spec == Init /\ [][Next]_vars
=============================================================================
