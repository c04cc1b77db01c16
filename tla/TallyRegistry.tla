---------------------------- MODULE TallyRegistry ----------------------------
(***************************************************************************)
(* What the tally server promises about the clients it has registered,     *)
(* with no word about threads, sockets and buffers: each is watched until  *)
(* it is dead, one at a time is being beaten, nobody comes back from the   *)
(* dead (a light that does is a new client), and a camera is only ever     *)
(* linked to a client that is registered.                                  *)
(***************************************************************************)
CONSTANTS Clients, Cameras,
          Nobody      \* a camera that is linked to no client

VARIABLES waiting, beaten, dead,  \* the registered clients, by what they do
          client                  \* the client each camera is linked to

registryVars == <<waiting, beaten, dead, client>>

Known == waiting \cup beaten \cup dead

Init ==
  /\ waiting = {} /\ beaten = {} /\ dead = {}
  /\ client = [b \in Cameras |-> Nobody]

\* A client is registered, and beaten at once.
Register(id) ==
  /\ id \notin Known /\ beaten = {}
  /\ beaten' = {id}
  /\ UNCHANGED <<waiting, dead, client>>

Beat(id) ==
  /\ id \in waiting /\ beaten = {}
  /\ waiting' = waiting \ {id}
  /\ beaten'  = {id}
  /\ UNCHANGED <<dead, client>>

Answered(id) ==
  /\ id \in beaten
  /\ beaten'  = beaten \ {id}
  /\ waiting' = waiting \cup {id}
  /\ UNCHANGED <<dead, client>>

Die(id) ==
  /\ id \in beaten
  /\ beaten' = beaten \ {id}
  /\ dead'   = dead \cup {id}
  /\ UNCHANGED <<waiting, client>>

Link(b, id) ==
  /\ id \in Known
  /\ client' = [client EXCEPT ![b] = id]
  /\ UNCHANGED <<waiting, beaten, dead>>

Next == \E id \in Clients :
  \/ Register(id) \/ Beat(id) \/ Answered(id) \/ Die(id)
  \/ \E b \in Cameras : Link(b, id)

Spec == Init /\ [][Next]_registryVars
=============================================================================
