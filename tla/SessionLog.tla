------------------------------- MODULE SessionLog -------------------------------
(***************************************************************************)
(* What src/include/blackbox.hpp promises whoever reads the log directory: *)
(* the lifecycle of lines 9-13, a fresh directory for each run, in which   *)
(* every session is preserved and never overwritten (lines 32-33), and     *)
(* what fdatasync makes durable.  No files, pages, stores or threads: a    *)
(* record is there with all its fields, or it is not there.  Blackbox      *)
(* implements this.                                                        *)
(***************************************************************************)
EXTENDS Naturals

CONSTANTS Session,      \* names of session directories
          NoSession,    \* none of them
          Capacity      \* records of a session

VARIABLES phase,        \* "none", "logging", "ending" in shutdown(), "ended"
          session,      \* the session of this run
          used,         \* sessions whose file was made
          filed,        \* records a reader finds, <<session, index>>
          durable,      \* those he would find after a power loss
          pledged       \* those the fdatasync under way will have made durable

logVars == <<phase, session, used, filed, durable, pledged>>

Index == 0 .. Capacity - 1

RecordsOf(s) == {r \in filed : r[1] = s}

LogInit == /\ phase = "none" /\ session = NoSession
           /\ used = {} /\ filed = {} /\ durable = {} /\ pledged = {}

\* init(path): a session no other run had, and nothing of theirs changes.  It may fail
\* when the file is made.
OpenSession ==
  /\ phase = "none"
  /\ \E s \in Session \ used :
       /\ used' = used \union {s}
       /\ \/ phase' = "logging" /\ session' = s
          \/ UNCHANGED <<phase, session>>
  /\ UNCHANGED <<filed, durable, pledged>>

\* log_cbk and log_pub: the next record of this session, after all the ones before it.
LogRecord ==
  /\ phase = "logging"
  /\ \E i \in Index :
       /\ \A j \in Index : <<session, j>> \in filed <=> j < i
       /\ filed' = filed \union {<<session, i>>}
  /\ UNCHANGED <<phase, session, used, durable, pledged>>

\* What is on disk stays, and more of what was logged comes to it.
Persists == durable \subseteq durable' /\ durable' \subseteq filed

WriteBack == Persists /\ UNCHANGED <<phase, session, used, filed, pledged>>

SyncBegins == /\ phase \in {"logging", "ending"}
              /\ pledged' = RecordsOf(session)
              /\ UNCHANGED <<phase, session, used, filed, durable>>

SyncEnds == /\ phase \in {"logging", "ending"}
            /\ Persists /\ pledged \subseteq durable'
            /\ pledged' = {}
            /\ UNCHANGED <<phase, session, used, filed>>

\* shutdown(): no record more, and in the end all of them are on disk.
StopLogging == /\ phase = "logging" /\ phase' = "ending"
               /\ UNCHANGED <<session, used, filed, durable, pledged>>

EndSession == /\ phase = "ending" /\ phase' = "ended"
              /\ Persists /\ RecordsOf(session) \subseteq durable'
              /\ pledged' = {}
              /\ UNCHANGED <<session, used, filed>>

NoProcess == phase' = "none" /\ session' = NoSession /\ pledged' = {}

\* The process is killed, or has ended: what was logged stays.
ProcessGone == /\ phase # "none"
               /\ NoProcess
               /\ UNCHANGED <<used, filed, durable>>

PowerLoss == /\ NoProcess
             /\ filed' = durable
             /\ UNCHANGED <<used, durable>>

LogNext == \/ OpenSession \/ LogRecord
           \/ WriteBack \/ SyncBegins \/ SyncEnds
           \/ StopLogging \/ EndSession
           \/ ProcessGone \/ PowerLoss

Spec == LogInit /\ [][LogNext]_logVars

================================================================================
