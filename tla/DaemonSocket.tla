---------------------------- MODULE DaemonSocket ----------------------------
(***************************************************************************)
(* Who serves an output: any number of daemons (daemon.rs, serve) and one  *)
(* socket path, <output>.incr/daemon.sock.  A daemon is spawned by a       *)
(* client that finds nobody at the path, looks at the path itself, loads   *)
(* the cache, removes what is at the path, binds and serves until it has   *)
(* been idle for the timeout, when it removes what is at the path again.   *)
(***************************************************************************)
EXTENDS FiniteSets

CONSTANTS
  Daemons,    \* daemon processes
  NoOne       \* nothing at the socket path

ASSUME SocketAssumption == NoOne \notin Daemons

VARIABLES
  overlap,    \* never changes: may a daemon start while another one starts?
  pc,         \* pc[d]: where serve is
  path,       \* the daemon whose listener is at the path, or NoOne
  recent      \* recent[d]: served a request within the idle timeout

socketvars == <<overlap, pc, path, recent>>

Starting == {"check", "load", "remove", "bind"}

SocketInit ==
  /\ overlap \in BOOLEAN
  /\ pc = [d \in Daemons |-> "off"]
  /\ path = NoOne
  /\ recent = [d \in Daemons |-> FALSE]

(* UnixStream::connect: somebody listens at the path.  The socket file of  *)
(* a daemon that was killed refuses.                                       *)
Reachable(d) == path = d /\ pc[d] = "serving"

Connects == \E d \in Daemons : Reachable(d)
-----------------------------------------------------------------------------
(* ensure_autospawn in some client.                                        *)
EnsureAutospawn(d) ==
  /\ pc[d] = "off"
  /\ ~Connects
  /\ ~overlap => \A e \in Daemons : pc[e] \notin Starting
  /\ pc' = [pc EXCEPT ![d] = "check"]
  /\ UNCHANGED <<overlap, path, recent>>

(* peony --daemon from a shell: nobody has looked at the path.             *)
StartByHand(d) ==
  /\ pc[d] = "off"
  /\ ~overlap => \A e \in Daemons : pc[e] \notin Starting
  /\ pc' = [pc EXCEPT ![d] = "check"]
  /\ UNCHANGED <<overlap, path, recent>>

(* Bug: the daemon does not look before it loads.                          *)
CheckNothing(d) ==
  /\ pc[d] = "check"
  /\ pc' = [pc EXCEPT ![d] = "load"]
  /\ UNCHANGED <<overlap, path, recent>>

(* serve: another daemon already bound the socket.                         *)
Check(d) ==
  /\ pc[d] = "check"
  /\ pc' = [pc EXCEPT ![d] = IF Connects THEN "off" ELSE "load"]
  /\ UNCHANGED <<overlap, path, recent>>

(* DaemonState::load succeeds, or there is no cache.                       *)
Load(d) ==
  /\ pc[d] = "load"
  /\ \E next \in {"remove", "off"} : pc' = [pc EXCEPT ![d] = next]
  /\ UNCHANGED <<overlap, path, recent>>

(* remove_file.                                                            *)
Remove(d) ==
  /\ pc[d] = "remove"
  /\ path' = NoOne
  /\ pc' = [pc EXCEPT ![d] = "bind"]
  /\ UNCHANGED <<overlap, recent>>

(* Bug: what is at the path is removed after the bind.                     *)
BindThenRemove(d) ==
  /\ pc[d] = "bind"
  /\ path' = NoOne
  /\ pc' = [pc EXCEPT ![d] = "serving"]
  /\ recent' = [recent EXCEPT ![d] = TRUE]
  /\ UNCHANGED overlap

(* UnixListener::bind fails when the path exists.                          *)
Bind(d) ==
  /\ pc[d] = "bind"
  /\ \/ /\ path = NoOne
        /\ path' = d
        /\ pc' = [pc EXCEPT ![d] = "serving"]
        /\ recent' = [recent EXCEPT ![d] = TRUE]
        /\ UNCHANGED overlap
     \/ /\ path # NoOne
        /\ pc' = [pc EXCEPT ![d] = "off"]
        /\ UNCHANGED <<overlap, path, recent>>

(* A client's request is accepted and handled.                             *)
Accept(d) ==
  /\ Reachable(d)
  /\ recent' = [recent EXCEPT ![d] = TRUE]
  /\ UNCHANGED <<overlap, pc, path>>

(* The idle timeout passes without a request.                              *)
TimePasses(d) ==
  /\ pc[d] = "serving" /\ recent[d]
  /\ recent' = [recent EXCEPT ![d] = FALSE]
  /\ UNCHANGED <<overlap, pc, path>>

(* Bug: only the daemon at the path notices that it is idle.               *)
ShutDownReachable(d) ==
  /\ Reachable(d) /\ ~recent[d]
  /\ path' = NoOne
  /\ pc' = [pc EXCEPT ![d] = "off"]
  /\ UNCHANGED <<overlap, recent>>

(* serve: idle, shutting down.                                             *)
ShutDown(d) ==
  /\ pc[d] = "serving" /\ ~recent[d]
  /\ path' = NoOne
  /\ pc' = [pc EXCEPT ![d] = "off"]
  /\ UNCHANGED <<overlap, recent>>

(* The process is killed; its socket file stays.                           *)
Kill(d) ==
  /\ pc[d] # "off"
  /\ pc' = [pc EXCEPT ![d] = "off"]
  /\ UNCHANGED <<overlap, path, recent>>

Serve(d) ==
  \/ Check(d) \/ Load(d) \/ Remove(d) \/ Bind(d)
  \/ Accept(d) \/ TimePasses(d) \/ ShutDown(d)

SocketNext == \E d \in Daemons : EnsureAutospawn(d) \/ StartByHand(d) \/ Serve(d) \/ Kill(d)

SocketSpec == SocketInit /\ [][SocketNext]_socketvars

(* A daemon process runs, and the clock of its idle timeout does too.      *)
FairSpec ==
  /\ SocketSpec
  /\ \A d \in Daemons : WF_socketvars(Check(d) \/ Load(d) \/ Remove(d) \/ Bind(d)
                                \/ TimePasses(d) \/ ShutDown(d))
-----------------------------------------------------------------------------
SocketTypeOK ==
  /\ overlap \in BOOLEAN
  /\ pc \in [Daemons -> Starting \cup {"off", "serving"}]
  /\ path \in Daemons \cup {NoOne}
  /\ recent \in [Daemons -> BOOLEAN]

(* serve's comment: a daemon defers to one that already bound the socket,  *)
(* also in a race between two clients that spawn at once.                  *)
OneServer ==
  \A d, e \in Daemons : pc[d] = "serving" /\ pc[e] = "serving" => d = e

(* Without such a race it does defer, through kills and idle shutdowns: a  *)
(* consequence of ServingIsReachable, and a theorem.                       *)
AtMostOneServes == ~overlap => OneServer

(* A daemon that serves can be reached unless starts overlap: no other     *)
(* daemon's remove_file, at its start or at its end, takes the socket away *)
(* from under it.                                                          *)
ServingIsReachable == ~overlap => \A d \in Daemons : pc[d] = "serving" => path = d

(* A daemon that lost its socket does not hold its memory for ever: with   *)
(* no request able to reach it the idle timeout ends it.                   *)
OrphansEnd ==
  \A d \in Daemons : (pc[d] = "serving" /\ path # d) ~> (pc[d] # "serving")
=============================================================================
