-------------------------- MODULE SessionRegistry --------------------------
(***************************************************************************)
(* What the dapz daemon promises about its debug sessions, with no locks,   *)
(* no connections and no bookkeeping.                                       *)
(*                                                                         *)
(* A pool key (backend command + cwd) is bound to at most one adapter       *)
(* session, a session is bound under at most one key, a fresh binding is a  *)
(* session nobody has ever held, and a session runs one operation at a      *)
(* time.  A session that is closed while an operation runs on it keeps its  *)
(* user until that operation ends.                                          *)
(***************************************************************************)
CONSTANTS Clients,   \* connections that run operations
          Keys,      \* pool keys
          Insts,     \* adapter sessions (one child process each)
          None       \* no session, no user

VARIABLES bound,     \* bound[k]: the session a key names, or None
          user       \* user[i]: the connection running an operation on i, or None

registryVars == <<bound, user>>

\* i is the session of no key and nobody runs an operation on it.
Unheld(i) == user[i] = None /\ \A k \in Keys : bound[k] # i

----------------------------------------------------------------------------
RegistryInit == /\ bound = [k \in Keys |-> None]
                /\ user = [i \in Insts |-> None]

\* A key that names no session gets a new one.
Open(k, i) == /\ bound[k] = None
              /\ Unheld(i)
              /\ bound' = [bound EXCEPT ![k] = i]
              /\ UNCHANGED user

\* A key that names a session nobody is using gets a new one in its place
\* (the adapter of the old one has exited).
Reopen(k, i) == /\ bound[k] # None
                /\ user[bound[k]] = None
                /\ Unheld(i)
                /\ bound' = [bound EXCEPT ![k] = i]
                /\ UNCHANGED user

\* One key is closed on request.
Close(k) == /\ bound[k] # None
            /\ bound' = [bound EXCEPT ![k] = None]
            /\ UNCHANGED user

\* Several keys are closed at once: either all of them (teardown) or only
\* keys whose sessions nobody is using (idle reaping).
CloseAll == /\ bound' = [k \in Keys |-> None]
            /\ UNCHANGED user

Reap == /\ bound' \in [Keys -> Insts \cup {None}]
        /\ \A k \in Keys : bound'[k] # bound[k] => bound'[k] = None /\ user[bound[k]] = None
        /\ UNCHANGED user

\* A connection starts and ends an operation; it runs one at a time.
Begin(c, i) == /\ user[i] = None
               /\ \A j \in Insts : user[j] # c
               /\ user' = [user EXCEPT ![i] = c]
               /\ UNCHANGED bound

End(c, i) == /\ user[i] = c
             /\ user' = [user EXCEPT ![i] = None]
             /\ UNCHANGED bound

RegistryNext == \/ \E k \in Keys, i \in Insts : Open(k, i) \/ Reopen(k, i)
                \/ \E k \in Keys : Close(k)
                \/ CloseAll
                \/ Reap
                \/ \E c \in Clients, i \in Insts : Begin(c, i) \/ End(c, i)

RegistrySpec == RegistryInit /\ [][RegistryNext]_registryVars
=============================================================================
