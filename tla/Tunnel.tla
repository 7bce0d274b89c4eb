-------------------------------- MODULE Tunnel -------------------------------
(***************************************************************************)
(* The ssh tunnel of a laptop (transport/ssh_tunnel.py) and the script that *)
(* runs it (scripts/laptop.sh): one manager process brings up an ssh child *)
(* that carries the forwards to etcd and the dashboard, watches it, brings *)
(* it up again with a backoff, and stops it on a signal.  The forwards are *)
(* one resource, the local ports: ssh is told to exit if it cannot have    *)
(* them all.                                                               *)
(***************************************************************************)
EXTENDS Integers

CONSTANT MaxBackoff    \* --max-backoff

ASSUME TunnelAssumption == MaxBackoff \in Nat \ {0}

VARIABLES
  at,           \* where the manager is
  child,        \* the process _proc names
  stray,        \* a former child nobody waits for: asked to exit, killed or abandoned
  port,         \* who has the local ports
  link,         \* h23 can be reached
  ok,           \* what _serve_once() is about to return
  backoff,
  leaving,      \* a KeyboardInterrupt is on its way up
  asked         \* SIGTERM was sent to the child

tunnel == <<at, child, stray, port, link, ok, backoff, leaving, asked>>

Place == {"start", "started", "wait", "serve", "stop", "reap", "sleep", "gone"}

TunnelTypeOK ==
  /\ at \in Place
  /\ child \in {"none", "running", "exited"}
  /\ stray \in {"none", "asked", "killed", "abandoned"}
  /\ port \in {"free", "child", "stray", "another"}
  /\ link \in BOOLEAN /\ ok \in BOOLEAN /\ leaving \in BOOLEAN /\ asked \in BOOLEAN
  /\ backoff \in 1..MaxBackoff

TunnelInit ==
  /\ at = "start"
  /\ child = "none" /\ stray = "none"
  /\ port \in {"free", "another"}
  /\ link \in BOOLEAN
  /\ ok = FALSE /\ leaving = FALSE /\ asked = FALSE
  /\ backoff = 1

Keeps(who) == IF port = who THEN "free" ELSE port

-----------------------------------------------------------------------------
(* ssh, the network, other tunnels.                                        *)

LinkChanges ==
  /\ link' = ~link
  /\ UNCHANGED <<at, child, stray, port, ok, backoff, leaving, asked>>

\* Another tunnel, left over or started by hand, takes the ports or gives them up.
AnotherTunnel ==
  /\ \/ port = "free" /\ port' = "another"
     \/ port = "another" /\ port' = "free"
  /\ UNCHANGED <<at, child, stray, link, ok, backoff, leaving, asked>>

\* ssh has logged in and listens.
Binds ==
  /\ child = "running" /\ ~asked /\ link /\ port = "free"
  /\ port' = "child"
  /\ UNCHANGED <<at, child, stray, link, ok, backoff, leaving, asked>>

\* ssh exits: no connection, or none any longer, a port that is taken, or SIGTERM.
ChildExits ==
  /\ child = "running"
  /\ ~link \/ port \notin {"free", "child"} \/ asked
  /\ child' = "exited"
  /\ port' = Keeps("child")
  /\ UNCHANGED <<at, stray, link, ok, backoff, leaving, asked>>

\* One that was told to exit does so; an abandoned one lives as long as it can.
StrayExits ==
  /\ stray \in {"asked", "killed"} \/ (stray = "abandoned" /\ (~link \/ port \notin {"free", "stray"}))
  /\ stray' = "none"
  /\ port' = Keeps("stray")
  /\ UNCHANGED <<at, child, link, ok, backoff, leaving, asked>>

StrayBinds ==
  /\ stray = "abandoned" /\ link /\ port = "free"
  /\ port' = "stray"
  /\ UNCHANGED <<at, child, stray, link, ok, backoff, leaving, asked>>

-----------------------------------------------------------------------------
(* The manager.                                                            *)

\* start(): Popen.
Start ==
  /\ at = "start"
  /\ at' = "started"
  /\ child' = "running"
  /\ UNCHANGED <<stray, port, link, ok, backoff, leaving, asked>>

\* The try block is entered.
EnterTry ==
  /\ at = "started"
  /\ at' = "wait"
  /\ UNCHANGED <<child, stray, port, link, ok, backoff, leaving, asked>>

\* wait_ready(): ssh has not exited, and something listens on the ports.
Ready ==
  /\ at = "wait"
  /\ child = "running" /\ port # "free"
  /\ at' = "serve"
  /\ ok' = TRUE
  /\ UNCHANGED <<child, stray, port, link, backoff, leaving, asked>>

\* ssh has exited; or the deadline has passed, whatever the link, and the ports were
\* closed when last looked at.
Hopeless == child = "exited" \/ port = "free"

NotReady ==
  /\ at = "wait"
  /\ Hopeless
  /\ at' = "stop"
  /\ UNCHANGED <<child, stray, port, link, ok, backoff, leaving, asked>>

Drops ==
  /\ at = "serve" /\ child = "exited"
  /\ at' = "stop"
  /\ UNCHANGED <<child, stray, port, link, ok, backoff, leaving, asked>>

Least(a, b) == IF a <= b THEN a ELSE b

\* Mutant: nothing caps it.
Uncapped == IF ok THEN 1 ELSE backoff * 2

NextBackoff == IF ok THEN 1 ELSE Least(MaxBackoff, backoff * 2)

\* _serve_once() is over and its SshTunnel forgotten.  A child that still runs lives on as
\* it was left; at most one such is followed at a time.
Forgets(killed) ==
  /\ child' = "none"
  /\ ok' = FALSE /\ asked' = FALSE
  /\ IF child # "running" THEN UNCHANGED <<stray, port>>
     ELSE /\ stray = "none"
          /\ stray' = IF killed THEN "killed" ELSE IF asked THEN "asked" ELSE "abandoned"
          /\ port' = IF port = "child" THEN "stray" ELSE port

\* Mutant: the loop ends when the tunnel could not be brought up.
RetriesIfServed == ~leaving /\ ok

Retries == ~leaving

\* It returns, and the loop waits; or it raises, and the loop ends.
Return(killed) ==
  /\ Forgets(killed)
  /\ IF Retries THEN at' = "sleep" /\ backoff' = NextBackoff
     ELSE at' = "gone" /\ UNCHANGED backoff
  /\ UNCHANGED <<link, leaving>>

\* stop(), of a child that has exited.
StopExited ==
  /\ at = "stop" /\ child = "exited"
  /\ Return(FALSE)

\* stop(), of one that has not: terminate, and wait for it.
Terminate ==
  /\ at = "stop" /\ child = "running"
  /\ asked' = TRUE
  /\ at' = "reap"
  /\ UNCHANGED <<child, stray, port, link, ok, backoff, leaving>>

Reap ==
  /\ at = "reap" /\ child = "exited"
  /\ Return(FALSE)

\* Mutant: one that does not exit in time is let go.
LetsGo ==
  /\ at = "reap" /\ child = "running"
  /\ Return(FALSE)

\* It has not exited in time: kill, and do not wait.
Kill ==
  /\ at = "reap" /\ child = "running"
  /\ Return(TRUE)

WakeUp ==
  /\ at = "sleep"
  /\ at' = "start"
  /\ UNCHANGED <<child, stray, port, link, ok, backoff, leaving, asked>>

\* Where a KeyboardInterrupt finds the finally block still to come.
Guarded == {"wait", "serve"}

\* A signal raises KeyboardInterrupt where the manager is.  In the try block it leads to
\* stop(); between Popen and the try, or in stop() itself, the child is left as it is.
Signal ==
  /\ at # "gone"
  /\ leaving' = TRUE
  /\ \/ /\ at \in Guarded
        /\ at' = "stop"
        /\ UNCHANGED <<child, stray, port, ok, asked>>
     \/ /\ at \notin Guarded
        /\ at' = "gone"
        /\ Forgets(FALSE)
  /\ UNCHANGED <<link, backoff>>

-----------------------------------------------------------------------------
(* laptop.sh.                                                              *)

\* cleanup(): whatever has the ports when the manager has gone is killed.
Sweep ==
  /\ at = "gone" /\ port \in {"stray", "another"}
  /\ port' = "free"
  /\ stray' = IF port = "stray" THEN "none" ELSE stray
  /\ UNCHANGED <<at, child, link, ok, backoff, leaving, asked>>

\* It is started again, if the ports are free.
Launch ==
  /\ at = "gone" /\ port = "free"
  /\ at' = "start"
  /\ leaving' = FALSE
  /\ backoff' = 1
  /\ UNCHANGED <<child, stray, port, link, ok, asked>>

-----------------------------------------------------------------------------

Manage == Start \/ EnterTry \/ Ready \/ NotReady \/ Drops \/ StopExited \/ Terminate \/ Reap
            \/ Kill \/ WakeUp

Ssh == Binds \/ ChildExits \/ StrayExits \/ StrayBinds

TunnelNext ==
  \/ Manage \/ Ssh \/ LinkChanges \/ AnotherTunnel \/ Signal \/ Sweep \/ Launch

\* The manager and ssh go on by themselves (ssh_tunnel.py:209-224, 304-305, 321-326).
\* Of the environment it is assumed that not every login takes longer than wait_ready()
\* waits: of attempts without end, one binds in time.
TunnelFairness == WF_tunnel(Manage) /\ WF_tunnel(Ssh) /\ SF_tunnel(Binds /\ at = "wait")

Forwarding == link /\ port # "free"

-----------------------------------------------------------------------------
(* Properties.                                                             *)

\* An ssh that runs when its manager forgets it was terminated and then killed, unless a
\* signal has come between Popen and the try block or into stop() itself
\* (ssh_tunnel.py:231-241, 290-308).
NoneLeftBehind ==
  [][child = "running" /\ child' = "none"
       => \/ asked /\ stray' = "killed"
          \/ Signal /\ at \in {"started", "stop", "reap"}]_tunnel

\* "Always stop the tunnel (terminating the ssh child, which holds the forwarded ports) on
\* every exit path": a manager that has gone has asked its ssh to exit
\* (ssh_tunnel.py:281-285, 295-297).
EveryExitStops == at = "gone" => stray # "abandoned"

\* Once h23 stays in reach, no other tunnel has the ports and the manager is not told to
\* stop, the forwards come up and stay up (ssh_tunnel.py:317-326).
ForwardsReturn == <>[](link /\ port # "another" /\ ~leaving) => <>[]Forwarding
=============================================================================
