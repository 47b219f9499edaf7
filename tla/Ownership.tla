------------------------------ MODULE Ownership ------------------------------
(***************************************************************************)
(* What unique_rc promises, without handles, deleters or policies: at any   *)
(* time every resource is free, or exactly one party must dispose of it,    *)
(* the client or one smart handle, and no smart handle answers for two.     *)
(* A resource only leaves that state by being disposed of by that party.    *)
(***************************************************************************)
CONSTANTS Rc,         \* the smart-handle objects
          Resource,   \* the resources they may own
          Client,     \* the party that holds raw handles
          Nobody      \* owner of a resource that is not open

VARIABLE owner        \* [Resource -> Rc \cup {Client, Nobody}]

Owned(x) == {r \in Resource : owner[r] = x}

AtMostOne(S) == \A r, s \in S : r = s

Init == owner = [r \in Resource |-> Nobody]

\* The client opens a resource, or disposes of one it is responsible for.
Acquire(r) ==
    /\ owner[r] = Nobody
    /\ owner' = [owner EXCEPT ![r] = Client]

Discard(r) ==
    /\ owner[r] = Client
    /\ owner' = [owner EXCEPT ![r] = Nobody]

\* A resource is opened straight into x, which owns nothing.
Create(x, r) ==
    /\ owner[r] = Nobody
    /\ Owned(x) = {}
    /\ owner' = [owner EXCEPT ![r] = x]

\* x disposes of what it owns and takes over what the client hands to it.
Put(x, S) ==
    /\ AtMostOne(S)
    /\ owner' = [r \in Resource |->
                   CASE r \in S -> x
                     [] r \notin S /\ owner[r] = x -> Nobody
                     [] OTHER -> owner[r]]

\* x gives back to the client what it owns, nothing is disposed of.
Yield(x) ==
    owner' = [r \in Resource |-> IF owner[r] = x THEN Client ELSE owner[r]]

\* x disposes of what it owns and takes over what y owns.
Take(x, y) ==
    /\ x # y
    /\ owner' = [r \in Resource |->
                   CASE owner[r] = y -> x
                     [] owner[r] = x -> Nobody
                     [] OTHER -> owner[r]]

\* x and y exchange what they own.
Exchange(x, y) ==
    owner' = [r \in Resource |->
                CASE owner[r] = x -> y
                  [] owner[r] = y -> x
                  [] OTHER -> owner[r]]

Next ==
    \/ \E r \in Resource : Acquire(r) \/ Discard(r)
    \/ \E x \in Rc, S \in SUBSET Owned(Client) : Put(x, S)
    \/ \E x \in Rc, r \in Resource : Create(x, r)
    \/ \E x \in Rc : Yield(x)
    \/ \E x, y \in Rc : Take(x, y) \/ Exchange(x, y)

Spec == Init /\ [][Next]_owner
==============================================================================
