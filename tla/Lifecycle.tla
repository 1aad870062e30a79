------------------------------ MODULE Lifecycle ------------------------------
(***************************************************************************)
(* The process from main's first line to its exit: a start that goes on      *)
(* without the services it cannot reach, requests in flight, signals, a drain *)
(* of at most 10 s, and the deferred closes.  What a handler does is reduced  *)
(* to the service it uses: the import is in ChainsRepository, the rest in the *)
(* modules of the handlers.                                                   *)
(***************************************************************************)
EXTENDS Naturals, Sequences

CONSTANT Handlers \* the requests of one behaviour, each served by a goroutine

VARIABLES
  phase,     \* how far main has come
  defers,    \* the deferred closes, the next one to run last
  opened,    \* the services that were reached at the start
  closed,    \* the clients whose Close has been called
  server,    \* how far the goroutine that listens has come
  handler,   \* request -> where it is and the service its route uses
  timedOut,  \* Shutdown gave up waiting
  exit       \* how the process ended

vars == <<phase, defers, opened, closed, server, handler, timedOut, exit>>

Services == {"postgres", "redis", "evm"}

\* main's steps up to signal.Notify, in their order.
Startup == <<"config", "postgres", "redis", "evm", "import", "start", "notify">>

Starting == {Startup[i] : i \in DOMAIN Startup}

Step(from) ==
  phase' = IF from = "notify" THEN "serving"
           ELSE Startup[(CHOOSE i \in DOMAIN Startup : Startup[i] = from) + 1]

\* What NewRouter's routes use: /chains, /healthz and /evm a service, the
\* other ones none.  A probe pings the three in turn; it is followed for one.
Routes == Services \cup {"none"}

Places == {"idle", "open", "dropped", "running", "using", "failed", "answered"}

Idle == [at |-> "idle", uses |-> "none"]

\* A connection is open before its request is read, and stays so between two.
Active == {h \in Handlers : handler[h].at \in {"running", "using"}}

Busy == Active \cup {h \in Handlers : handler[h].at = "open"}

Alive == phase # "exited"

-----------------------------------------------------------------------------
Init ==
  /\ phase = "config" /\ exit = "none"
  /\ defers = <<>> /\ opened = {} /\ closed = {}
  /\ server = "off" /\ timedOut = FALSE
  /\ handler = [h \in Handlers |-> Idle]

Exit(how) ==
  /\ phase' = "exited" /\ exit' = how /\ server' = "closed"
  /\ UNCHANGED <<defers, opened, closed, handler, timedOut>>

\* log.Fatalf ends the process without running the deferred closes.
LoadFails == phase = "config" /\ Exit("fatal")

Load ==
  /\ phase = "config" /\ Step("config")
  /\ UNCHANGED <<defers, opened, closed, server, handler, timedOut, exit>>

\* Mutant of Open: a close that is not deferred.
OpenOnly(s) ==
  /\ phase = s /\ Step(s)
  /\ opened' = opened \cup {s} /\ UNCHANGED defers
  /\ UNCHANGED <<closed, server, handler, timedOut, exit>>

\* NewPostgres and NewRedis ping with a timeout of 5 s; evm.NewClient dials.
Open(s) ==
  /\ phase = s /\ Step(s)
  /\ opened' = opened \cup {s} /\ defers' = Append(defers, s)
  /\ UNCHANGED <<closed, server, handler, timedOut, exit>>

\* The error is logged, what was opened is closed, and main goes on without.
OpenFails(s) ==
  /\ phase = s /\ Step(s)
  /\ UNCHANGED <<defers, opened, closed, server, handler, timedOut, exit>>

\* The import, skipped without a database; and signal.Notify.
Proceed ==
  /\ phase \in {"import", "notify"} /\ Step(phase)
  /\ UNCHANGED <<defers, opened, closed, server, handler, timedOut, exit>>

\* The goroutine that listens runs beside main from here on.
StartServer ==
  /\ phase = "start" /\ Step("start") /\ server' = "starting"
  /\ UNCHANGED <<defers, opened, closed, handler, timedOut, exit>>

\* Once Shutdown was called, ListenAndServe takes nothing up any more.
Listen ==
  /\ phase \in {"notify", "serving"} /\ server = "starting" /\ server' = "listening"
  /\ UNCHANGED <<phase, defers, opened, closed, handler, timedOut, exit>>

\* The port is taken, which the goroutine may also learn while main shuts down,
\* or accepting fails for good.
ListenFails ==
  /\ Alive /\ server \in {"starting", "listening"} /\ server' = "failed"
  /\ UNCHANGED <<phase, defers, opened, closed, handler, timedOut, exit>>

\* It calls log.Fatalf, wherever main is by then.
Fatal == Alive /\ server = "failed" /\ Exit("fatal")

\* SIGKILL and SIGHUP at any time, and until signal.Notify every signal.
Killed == Alive /\ Exit("killed")

\* The first SIGINT or SIGTERM, and Shutdown's beginning; later ones fill the
\* channel that nobody reads any more.
Signal ==
  /\ phase = "serving" /\ phase' = "draining"
  /\ server' = IF server = "listening" THEN "closed" ELSE server
  /\ UNCHANGED <<defers, opened, closed, handler, timedOut, exit>>

\* Mutant of Drained: srv.Close instead of srv.Shutdown.
DrainedAtOnce ==
  /\ phase = "draining" /\ phase' = "closing"
  /\ UNCHANGED <<defers, opened, closed, server, handler, timedOut, exit>>

\* Shutdown returns when no connection is left that has a request or may still
\* send its first one ...
Drained ==
  /\ phase = "draining" /\ Busy = {} /\ phase' = "closing"
  /\ UNCHANGED <<defers, opened, closed, server, handler, timedOut, exit>>

\* Mutant of DrainTimesOut: Shutdown gets a context without a deadline.
DrainWaits == Drained /\ FALSE

\* ... or when its context has expired, with handlers still at work.
DrainTimesOut ==
  /\ phase = "draining" /\ Busy # {}
  /\ phase' = "closing" /\ timedOut' = TRUE
  /\ UNCHANGED <<defers, opened, closed, server, handler, exit>>

Last == defers[Len(defers)]

CloseLast ==
  /\ phase = "closing" /\ defers # <<>> /\ Last \notin closed
  /\ closed' = closed \cup {Last}
  /\ UNCHANGED <<phase, defers, opened, server, handler, timedOut, exit>>

Held(s) == \E h \in Handlers : handler[h] = [at |-> "using", uses |-> s]

\* Mutant of LastClosed: Close does not wait for the connections.
LastClosedAtOnce ==
  /\ phase = "closing" /\ defers # <<>> /\ Last \in closed
  /\ defers' = SubSeq(defers, 1, Len(defers) - 1)
  /\ UNCHANGED <<phase, opened, closed, server, handler, timedOut, exit>>

\* The pool's Close returns when every connection is back.
LastClosed ==
  /\ phase = "closing" /\ defers # <<>> /\ Last \in closed
  /\ Last = "postgres" => ~Held("postgres")
  /\ defers' = SubSeq(defers, 1, Len(defers) - 1)
  /\ UNCHANGED <<phase, opened, closed, server, handler, timedOut, exit>>

Return == phase = "closing" /\ defers = <<>> /\ Exit("clean")

-----------------------------------------------------------------------------
Set(h, from, to) ==
  /\ Alive /\ handler[h].at = from
  /\ handler' = [handler EXCEPT ![h].at = to]
  /\ UNCHANGED <<phase, defers, opened, closed, server, timedOut, exit>>

Accept(h) == server = "listening" /\ Set(h, "idle", "open")

\* The request is read and routed, also on a connection that was accepted before
\* the drain began.
Begin(h, route) ==
  /\ Alive /\ handler[h].at = "open"
  /\ handler' = [handler EXCEPT ![h] = [at |-> "running", uses |-> route]]
  /\ UNCHANGED <<phase, defers, opened, closed, server, timedOut, exit>>

\* A service that was not reached at the start is never asked.
Use(h) == handler[h].uses \in opened \ closed /\ Set(h, "running", "using")

UseClosed(h) == handler[h].uses \in closed /\ Set(h, "running", "failed")

Release(h) == Set(h, "using", "running")

Finish(h) == Set(h, "running", "answered")

\* A connection without a request goes: Shutdown closes those that have had none
\* for 5 s, and clients leave.
Drop(h) == Set(h, "open", "dropped")

Next ==
  \/ LoadFails \/ Load \/ Proceed \/ StartServer
  \/ Listen \/ ListenFails \/ Fatal \/ Killed \/ Signal
  \/ \E s \in Services : Open(s) \/ OpenFails(s)
  \/ Drained \/ DrainTimesOut \/ CloseLast \/ LastClosed \/ Return
  \/ \E h \in Handlers :
       \/ Accept(h) \/ Drop(h)
       \/ \E route \in Routes : Begin(h, route)
       \/ Use(h) \/ UseClosed(h) \/ Release(h) \/ Finish(h)

Spec == Init /\ [][Next]_vars

\* main runs and its timer fires; no handler owes an end, nor a service an
\* answer: neither the database nor the RPC calls have timeouts.
FairSpec ==
  Spec /\ WF_vars(Drained \/ DrainTimesOut) /\ WF_vars(CloseLast \/ LastClosed)
       /\ WF_vars(Return)

-----------------------------------------------------------------------------
(* Properties *)

\* Every variable holds values of its kind.
TypeOK ==
  /\ phase \in Starting \cup {"serving", "draining", "closing", "exited"}
  /\ exit \in {"none", "clean", "fatal", "killed"}
  /\ defers \in Seq(Services)
  /\ opened \subseteq Services /\ closed \subseteq opened
  /\ server \in {"off", "starting", "listening", "failed", "closed"}
  /\ timedOut \in BOOLEAN
  /\ handler \in [Handlers -> [at : Places, uses : Routes]]

\* A request meets a closed client only if it outlasted the drain: a stop that
\* did not time out takes nothing away from anybody, not even from a request that
\* began while main was draining already.
ClosedOnlyAfterTimeout ==
  /\ closed # {} /\ Active # {} => timedOut
  /\ \A h \in Handlers : handler[h].at = "failed" => timedOut

\* No connection of the database is in use once its pool's Close returned, and
\* by then nothing that was opened later is still open.
PoolClosedLast ==
  "postgres" \in closed /\ "postgres" \notin {defers[i] : i \in DOMAIN defers} =>
    ~Held("postgres") /\ closed = opened

\* The order in which main opens them.
OpenedBefore(s, t) ==
  \E i, j \in DOMAIN Startup : i < j /\ Startup[i] = s /\ Startup[j] = t

\* The closes run in the reverse order of the opening, also if log.Fatalf of the
\* other goroutine or a signal cuts them off in the middle: nothing is closed
\* before what was opened after it.  Only a return from main has closed it all.
ClosesUnwind ==
  /\ exit = "clean" => closed = opened
  /\ \A s \in closed, t \in opened : OpenedBefore(s, t) => t \in closed

\* After a signal the process ends, although handlers may hang: the one thing
\* that can hold it is a query that never returns its connection.
StopsUnlessQueryHangs ==
  []<>(~Held("postgres")) => (phase = "draining" ~> phase = "exited")

=============================================================================
