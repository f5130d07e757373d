------------------------------- MODULE SshPool ------------------------------
(***************************************************************************)
(* The SSH clients the manager keeps (internal/ssh/pool.go): one for each  *)
(* cluster, host and login, handed to whoever asks, dialled outside the    *)
(* lock when there is none that is fresh and answers.                      *)
(***************************************************************************)
EXTENDS Naturals, FiniteSets

CONSTANTS
  Hosts,     \* machines reached over SSH
  Logins,    \* what a client's credentials hash to
  Callers,   \* goroutines that ask for clients
  MaxDials,  \* connections made for one key (bound)
  NoClient

PoolKeys == [host : Hosts, login : Logins]
Clients == [key : PoolKeys, n : 1..MaxDials]

ASSUME SshPoolAssumption == MaxDials \in Nat /\ NoClient \notin Clients

VARIABLES
  entries,  \* the client cached under each key, or NoClient
  dials,    \* connections made for each key
  closed,   \* clients the pool has closed
  dead,     \* clients whose connection broke
  shut,     \* Close was called
  call      \* what each caller is in the middle of, and the client it has

poolVars == <<entries, dials, closed, dead, shut, call>>

Idle == [at |-> "idle", key |-> NoClient, client |-> NoClient]

PoolInit ==
  /\ entries = [k \in PoolKeys |-> NoClient]
  /\ dials = [k \in PoolKeys |-> 0]
  /\ closed = {}
  /\ dead = {}
  /\ shut = FALSE
  /\ call = [c \in Callers |-> Idle]

Usable(client) == client # NoClient /\ client \notin closed \cup dead

\* Get under the first lock: refused after Close; a client that was used within
\* five minutes and answers a keepalive is handed out; one that is not is evicted.
Get(c, k) ==
  /\ call[c].at # "dialing"
  /\ \/ /\ shut
        /\ call' = [call EXCEPT ![c] = Idle]
        /\ UNCHANGED <<entries, closed>>
     \/ /\ ~shut
        /\ Usable(entries[k])
        /\ call' = [call EXCEPT ![c] = [at |-> "has", key |-> k, client |-> entries[k]]]
        /\ UNCHANGED <<entries, closed>>
     \/ /\ ~shut
        /\ closed' = closed \cup ({entries[k]} \ {NoClient})
        /\ entries' = [entries EXCEPT ![k] = NoClient]
        /\ call' = [call EXCEPT ![c] = [at |-> "dialing", key |-> k, client |-> NoClient]]
  /\ UNCHANGED <<dials, dead, shut>>

\* Mutant: what Close did during the dial is not looked at.
M_Dialled(c) ==
  LET k      == call[c].key
      client == [key |-> k, n |-> dials[k] + 1]
  IN  /\ call[c].at = "dialing"
      /\ dials[k] < MaxDials
      /\ dials' = [dials EXCEPT ![k] = @ + 1]
      /\ entries' = [entries EXCEPT ![k] = client]
      /\ call' = [call EXCEPT ![c] = [at |-> "has", key |-> k, client |-> client]]
      /\ UNCHANGED <<closed, dead, shut>>

\* Get under the second lock, once the dial succeeded: the entry is written over
\* whatever another caller put there meanwhile.
Dialled(c) ==
  LET k      == call[c].key
      client == [key |-> k, n |-> dials[k] + 1]
  IN  /\ call[c].at = "dialing"
      /\ dials[k] < MaxDials
      /\ dials' = [dials EXCEPT ![k] = @ + 1]
      /\ \/ /\ shut
            /\ closed' = closed \cup {client}
            /\ call' = [call EXCEPT ![c] = Idle]
            /\ UNCHANGED entries
         \/ /\ ~shut
            /\ entries' = [entries EXCEPT ![k] = client]
            /\ call' = [call EXCEPT ![c] = [at |-> "has", key |-> k, client |-> client]]
            /\ UNCHANGED closed
      /\ UNCHANGED <<dead, shut>>

DialFails(c) ==
  /\ call[c].at = "dialing"
  /\ call' = [call EXCEPT ![c] = Idle]
  /\ UNCHANGED <<entries, dials, closed, dead, shut>>

\* Every login of the host goes, in use or not.
Drop(host) ==
  /\ closed' = closed \cup ({entries[k] : k \in {k \in PoolKeys : k.host = host}} \ {NoClient})
  /\ entries' = [k \in PoolKeys |-> IF k.host = host THEN NoClient ELSE entries[k]]
  /\ UNCHANGED <<dials, dead, shut, call>>

Close ==
  /\ ~shut
  /\ closed' = closed \cup ({entries[k] : k \in PoolKeys} \ {NoClient})
  /\ entries' = [k \in PoolKeys |-> NoClient]
  /\ shut' = TRUE
  /\ UNCHANGED <<dials, dead, call>>

ConnectionBreaks(client) ==
  /\ client.n <= dials[client.key]
  /\ client \notin dead
  /\ dead' = dead \cup {client}
  /\ UNCHANGED <<entries, dials, closed, shut, call>>

PoolNext ==
  \/ \E c \in Callers : (\E k \in PoolKeys : Get(c, k)) \/ Dialled(c) \/ DialFails(c)
  \/ \E h \in Hosts : Drop(h)
  \/ Close
  \/ \E client \in Clients : ConnectionBreaks(client)

PoolTypeOK ==
  /\ entries \in [PoolKeys -> Clients \cup {NoClient}]
  /\ dials \in [PoolKeys -> 0..MaxDials]
  /\ closed \subseteq Clients
  /\ dead \subseteq Clients
  /\ shut \in BOOLEAN
  /\ call \in [Callers -> [at : {"idle", "dialing", "has"}, key : PoolKeys \cup {NoClient},
                           client : Clients \cup {NoClient}]]

(* The pool never hands out, or keeps, a client it has closed or one made  *)
(* for another host or login, though it dials without its lock; and once   *)
(* it was closed nothing gets into it again, not even by a dial that was   *)
(* under way (pool.go:66, 79).                                             *)
PoolIsSound ==
  /\ \A k \in PoolKeys : entries[k] # NoClient => entries[k].key = k /\ entries[k] \notin closed
  /\ \A c \in Callers : call[c].at = "has" => call[c].client.key = call[c].key
  /\ shut => \A k \in PoolKeys : entries[k] = NoClient
=============================================================================
