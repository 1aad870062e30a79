--------------------------- MODULE LifecycleProofs ---------------------------
(***************************************************************************)
(* Proofs about Lifecycle, for any number of requests in flight, and about    *)
(* the health probe of the process while it serves, Health.                   *)
(***************************************************************************)
EXTENDS Lifecycle, Health, SequenceTheorems, TLAPS

Deferred == {defers[i] : i \in DOMAIN defers}

\* What was opened is closed or has its close deferred.  Postgres comes first.
DefersFit ==
  /\ opened = Deferred \cup closed
  /\ \A i \in DOMAIN defers : defers[i] = "postgres" => i = 1
  /\ phase \in {"config", "postgres"} => defers = <<>>

\* The place of a service in the start.
Rank(s) == IF s = "postgres" THEN 2 ELSE IF s = "redis" THEN 3 ELSE 4

\* The deferred closes are in the order of the start, and a client that is
\* closed, or is being closed, comes after whatever is still deferred.
OrderFits ==
  /\ \A i, j \in DOMAIN defers : i < j => Rank(defers[i]) < Rank(defers[j])
  /\ \A s \in closed : \A i \in DOMAIN defers : Rank(defers[i]) <= Rank(s)
  /\ phase \in Services => \A i \in DOMAIN defers : Rank(defers[i]) < Rank(phase)

\* Closes run only at the end, and a clean one has none left to run.
EndFits ==
  /\ closed # {} => phase \in {"closing", "exited"}
  /\ exit # "none" <=> phase = "exited"
  /\ exit = "clean" => defers = <<>>

\* After the signal no connection is accepted, and only a timeout ends the wait
\* for those that are there.
DrainFits ==
  /\ phase \in {"draining", "closing", "exited"} => server # "listening"
  /\ phase = "closing" /\ Busy # {} => timedOut

IInv ==
  TypeOK /\ DefersFit /\ OrderFits /\ EndFits /\ DrainFits
         /\ ClosedOnlyAfterTimeout /\ PoolClosedLast

LEMMA InitEstablishes == Init => IInv
  <1>. SUFFICES ASSUME Init PROVE IInv
    OBVIOUS
  <1>1. /\ defers = <<>> /\ DOMAIN defers = {} /\ defers \in Seq(Services)
        /\ opened = {} /\ closed = {} /\ phase = "config" /\ exit = "none"
        /\ server = "off" /\ timedOut = FALSE
        /\ handler = [h \in Handlers |-> Idle]
    BY DEF Init
  <1>2. phase \in Starting
    BY <1>1 DEF Starting, Startup
  <1>3. TypeOK
    BY <1>1, <1>2 DEF TypeOK, Idle, Routes, Places
  <1>4. DefersFit /\ OrderFits /\ EndFits /\ DrainFits
    BY <1>1 DEF DefersFit, Deferred, OrderFits, Services, EndFits, DrainFits
  <1>5. ClosedOnlyAfterTimeout /\ PoolClosedLast
    BY <1>1 DEF ClosedOnlyAfterTimeout, PoolClosedLast, Idle
  <1>. QED
    BY <1>3, <1>4, <1>5 DEF IInv

\* The phase after each of main's steps.
LEMMA StepLeads ==
  ASSUME NEW from \in {"config", "postgres", "redis", "evm", "import", "start", "notify"},
         Step(from)
  PROVE  /\ phase' \in Starting \cup {"serving"}
         /\ phase' \notin {"draining", "closing", "exited", "config"}
         /\ phase' = "postgres" => from = "config"
         /\ phase' = "redis" => from = "postgres"
         /\ phase' = "evm" => from = "redis"
  <1>1. Startup = <<"config", "postgres", "redis", "evm", "import", "start", "notify">>
    BY DEF Startup
  <1>2. CASE from = "notify"
    BY <1>2 DEF Step
  <1>3. CASE from # "notify"
    <2>1. \E i \in 1..6 : Startup[i] = from
      BY <1>1, <1>3
    <2>2. /\ DOMAIN Startup = 1..7
          /\ \A i, j \in DOMAIN Startup : Startup[i] = Startup[j] => i = j
      BY <1>1
    <2>3. PICK i \in 1..6 : Startup[i] = from
      BY <2>1
    <2>4. (CHOOSE j \in DOMAIN Startup : Startup[j] = from) = i
      BY <2>2, <2>3
    <2>5. phase' = Startup[i + 1]
      BY <2>4, <1>3 DEF Step
    <2>6. Startup[i + 1] \in Starting
      BY <2>2, <2>3 DEF Starting
    <2>. QED
      BY <1>1, <2>3, <2>5, <2>6
  <1>. QED
    BY <1>2, <1>3

\* Steps of main before the closes, which leave the deferred calls, the
\* clients and the handlers alone.
LEMMA StartupKeeps ==
  ASSUME IInv, Load \/ Proceed \/ StartServer \/ \E s \in Services : OpenFails(s)
  PROVE  IInv'
  <1>1. PICK from \in {"config", "postgres", "redis", "evm", "import", "start", "notify"} :
          phase = from /\ Step(from)
    BY DEF Load, Proceed, StartServer, OpenFails, Services
  <1>2. /\ UNCHANGED <<defers, opened, closed, handler, timedOut, exit>>
        /\ server' \in {server, "starting"}
    BY DEF Load, Proceed, StartServer, OpenFails
  <1>3. /\ phase' \in Starting \cup {"serving"}
        /\ phase' \notin {"draining", "closing", "exited", "config"}
        /\ phase' = "postgres" => from = "config"
        /\ phase' = "redis" => from = "postgres"
        /\ phase' = "evm" => from = "redis"
    BY <1>1, StepLeads
  <1>4. TypeOK'
    BY <1>2, <1>3 DEF IInv, TypeOK
  <1>5. DefersFit'
    BY <1>1, <1>2, <1>3 DEF IInv, DefersFit, Deferred
  <1>6. EndFits' /\ DrainFits'
    BY <1>1, <1>2, <1>3 DEF IInv, EndFits, DrainFits
  <1>7. ClosedOnlyAfterTimeout' /\ PoolClosedLast'
    BY <1>2 DEF IInv, ClosedOnlyAfterTimeout, PoolClosedLast, Active, Held
  <1>8. OrderFits'
    <2>1. ASSUME phase' \in Services
          PROVE  \A i \in DOMAIN defers : Rank(defers[i]) < Rank(phase')
      <3>1. CASE phase' = "postgres"
        <4>1. DOMAIN defers = {}
          BY <1>1, <1>3, <3>1 DEF IInv, DefersFit
        <4>. QED
          BY <4>1
      <3>2. CASE phase' = "redis" \/ phase' = "evm"
        <4>1. phase \in Services /\ Rank(phase) < Rank(phase')
          BY <1>1, <1>3, <3>2 DEF Services, Rank
        <4>2. \A i \in DOMAIN defers : Rank(defers[i]) < Rank(phase)
          BY <4>1 DEF IInv, OrderFits
        <4>. QED
          BY <4>1, <4>2 DEF Rank
      <3>. QED
        BY <2>1, <3>1, <3>2 DEF Services
    <2>. QED
      BY <1>2, <2>1 DEF IInv, OrderFits
  <1>. QED
    BY <1>4, <1>5, <1>6, <1>7, <1>8 DEF IInv

LEMMA OpenKeeps ==
  ASSUME IInv, NEW s \in Services, Open(s) PROVE IInv'
  <1>1. /\ phase = s /\ Step(s) /\ opened' = opened \cup {s}
        /\ defers' = Append(defers, s) /\ s \in {"postgres", "redis", "evm"}
        /\ UNCHANGED <<closed, server, handler, timedOut, exit>>
    BY DEF Open, Services
  <1>2. /\ phase' \in Starting \cup {"serving"}
        /\ phase' \notin {"draining", "closing", "exited", "config", "postgres"}
        /\ phase' = "redis" => s = "postgres"
        /\ phase' = "evm" => s = "redis"
    BY <1>1, StepLeads
  <1>3. closed = {} /\ defers \in Seq(Services)
    BY <1>1 DEF IInv, EndFits, TypeOK
  <1>4. /\ defers' \in Seq(Services) /\ Len(defers') = Len(defers) + 1
        /\ \A i \in 1..Len(defers) : defers'[i] = defers[i]
        /\ defers'[Len(defers) + 1] = s /\ Len(defers) \in Nat
        /\ DOMAIN defers = 1..Len(defers) /\ DOMAIN defers' = 1..(Len(defers) + 1)
    BY <1>1, <1>3, AppendProperties
  <1>5. TypeOK'
    BY <1>1, <1>2, <1>3, <1>4 DEF IInv, TypeOK
  <1>6. Deferred' = Deferred \cup {s}
    <2>1. \A i \in DOMAIN defers' :
            \/ i \in DOMAIN defers /\ defers'[i] = defers[i]
            \/ i = Len(defers) + 1 /\ defers'[i] = s
      BY <1>4
    <2>2. \A i \in DOMAIN defers : i \in DOMAIN defers' /\ defers'[i] = defers[i]
      BY <1>4
    <2>3. Len(defers) + 1 \in DOMAIN defers'
      BY <1>4
    <2>. QED
      BY <1>4, <2>1, <2>2, <2>3 DEF Deferred
  <1>7. \A i \in DOMAIN defers' : defers'[i] = "postgres" => i = 1
    <2>1. s = "postgres" => Len(defers) = 0
      BY <1>1 DEF IInv, DefersFit
    <2>. QED
      BY <1>4, <2>1 DEF IInv, DefersFit
  <1>8. DefersFit'
    BY <1>1, <1>2, <1>6, <1>7 DEF IInv, DefersFit
  <1>9. EndFits' /\ DrainFits'
    BY <1>1, <1>2, <1>3 DEF IInv, EndFits, DrainFits
  <1>10. ClosedOnlyAfterTimeout' /\ PoolClosedLast'
    BY <1>1, <1>3 DEF IInv, ClosedOnlyAfterTimeout, PoolClosedLast, Active
  <1>11. OrderFits'
    <2>1. /\ \A i, j \in DOMAIN defers : i < j => Rank(defers[i]) < Rank(defers[j])
          /\ \A i \in DOMAIN defers : Rank(defers[i]) < Rank(s)
      BY <1>1 DEF IInv, OrderFits, Services
    <2>2. \A i, j \in DOMAIN defers' : i < j => Rank(defers'[i]) < Rank(defers'[j])
      <3>. SUFFICES ASSUME NEW i \in DOMAIN defers', NEW j \in DOMAIN defers', i < j
                    PROVE  Rank(defers'[i]) < Rank(defers'[j])
        OBVIOUS
      <3>1. i \in DOMAIN defers /\ defers'[i] = defers[i]
        BY <1>4
      <3>2. CASE j \in DOMAIN defers
        BY <1>4, <2>1, <3>1, <3>2
      <3>3. CASE j = Len(defers) + 1
        BY <1>4, <2>1, <3>1, <3>3
      <3>. QED
        BY <1>4, <3>2, <3>3
    <2>3. ASSUME phase' \in Services, NEW i \in DOMAIN defers'
          PROVE  Rank(defers'[i]) < Rank(phase')
      <3>1. Rank(s) < Rank(phase')
        BY <1>2, <2>3 DEF Services, Rank
      <3>2. defers'[i] = s \/ Rank(defers'[i]) < Rank(s)
        BY <1>4, <2>1
      <3>. QED
        BY <3>1, <3>2 DEF Rank
    <2>. QED
      BY <1>1, <1>3, <2>2, <2>3 DEF OrderFits
  <1>. QED
    BY <1>5, <1>8, <1>9, <1>10, <1>11 DEF IInv

\* The ends that skip the closes, or what is left of them.
LEMMA FatalKeeps ==
  ASSUME IInv, LoadFails \/ Fatal \/ Killed PROVE IInv'
  <1>1. /\ phase # "exited" /\ phase' = "exited"
        /\ exit' \in {"fatal", "killed"} /\ server' = "closed"
        /\ UNCHANGED <<defers, opened, closed, handler, timedOut>>
    BY DEF LoadFails, Fatal, Killed, Exit, Alive
  <1>2. TypeOK'
    BY <1>1 DEF IInv, TypeOK
  <1>3. DefersFit'
    BY <1>1 DEF IInv, DefersFit, Deferred
  <1>4. OrderFits'
    BY <1>1 DEF IInv, OrderFits, Services
  <1>5. EndFits' /\ DrainFits'
    BY <1>1 DEF IInv, EndFits, DrainFits
  <1>6. ClosedOnlyAfterTimeout' /\ PoolClosedLast'
    BY <1>1 DEF IInv, ClosedOnlyAfterTimeout, PoolClosedLast, Active, Held
  <1>. QED
    BY <1>2, <1>3, <1>4, <1>5, <1>6 DEF IInv

\* The goroutine that listens, and the signal.
LEMMA SignalKeeps ==
  ASSUME IInv, Listen \/ ListenFails \/ Signal PROVE IInv'
  <1>1. /\ UNCHANGED <<defers, opened, closed, handler, timedOut, exit>>
        /\ server' \in {"listening", "failed", "closed", server}
        /\ phase' = phase \/ (phase = "serving" /\ phase' = "draining")
    BY DEF Listen, ListenFails, Signal
  <1>2. phase' \in {"draining", "closing", "exited"} => server' # "listening"
    BY DEF Listen, ListenFails, Signal, IInv, DrainFits, TypeOK
  <1>3. TypeOK'
    BY <1>1 DEF IInv, TypeOK
  <1>4. DefersFit' /\ OrderFits'
    BY <1>1 DEF IInv, DefersFit, Deferred, OrderFits, Services
  <1>5. EndFits' /\ DrainFits'
    BY <1>1, <1>2 DEF IInv, EndFits, DrainFits, Busy, Active
  <1>6. ClosedOnlyAfterTimeout' /\ PoolClosedLast'
    BY <1>1 DEF IInv, ClosedOnlyAfterTimeout, PoolClosedLast, Active, Held
  <1>. QED
    BY <1>3, <1>4, <1>5, <1>6 DEF IInv

\* However the drain ends, requests that are left over mean a timeout.
LEMMA DrainKeeps ==
  ASSUME IInv, Drained \/ DrainTimesOut PROVE IInv'
  <1>1. /\ phase = "draining" /\ phase' = "closing" /\ timedOut' \in BOOLEAN
        /\ timedOut \/ Busy # {} => timedOut'
        /\ UNCHANGED <<defers, opened, closed, server, handler, exit>>
    BY DEF Drained, DrainTimesOut, IInv, TypeOK
  <1>2. closed = {} /\ Active' = Active /\ Busy' = Busy
    BY <1>1 DEF IInv, EndFits, Active, Busy
  <1>3. TypeOK'
    BY <1>1 DEF IInv, TypeOK
  <1>4. DefersFit'
    BY <1>1 DEF IInv, DefersFit, Deferred
  <1>5. EndFits' /\ DrainFits'
    BY <1>1, <1>2 DEF IInv, EndFits, DrainFits
  <1>6. ClosedOnlyAfterTimeout' /\ PoolClosedLast'
    BY <1>1, <1>2 DEF IInv, ClosedOnlyAfterTimeout, PoolClosedLast
  <1>7. OrderFits'
    BY <1>1 DEF IInv, OrderFits, Services
  <1>. QED
    BY <1>3, <1>4, <1>5, <1>6, <1>7 DEF IInv

LEMMA CloseLastKeeps ==
  ASSUME IInv, CloseLast PROVE IInv'
  <1>1. /\ phase = "closing" /\ defers # <<>> /\ Last \notin closed
        /\ closed' = closed \cup {Last}
        /\ UNCHANGED <<phase, defers, opened, server, handler, timedOut, exit>>
    BY DEF CloseLast
  <1>2. Last \in Deferred
    BY <1>1 DEF Last, Deferred, IInv, TypeOK
  <1>3. Last \in opened
    BY <1>2 DEF IInv, DefersFit
  <1>4. TypeOK'
    BY <1>1, <1>3 DEF IInv, TypeOK
  <1>5. DefersFit'
    BY <1>1, <1>2 DEF IInv, DefersFit, Deferred
  <1>6. EndFits' /\ DrainFits'
    BY <1>1 DEF IInv, EndFits, DrainFits, Active, Busy
  <1>7. ClosedOnlyAfterTimeout'
    BY <1>1 DEF IInv, ClosedOnlyAfterTimeout, DrainFits, Active, Busy
  <1>8. PoolClosedLast'
    BY <1>1, <1>2, <1>3 DEF IInv, PoolClosedLast, Deferred, Held
  <1>9. OrderFits'
    <2>1. defers \in Seq(Services) /\ Len(defers) \in Nat /\ DOMAIN defers = 1..Len(defers)
      BY DEF IInv, TypeOK
    <2>2. \A i \in DOMAIN defers : Rank(defers[i]) <= Rank(Last)
      <3>. SUFFICES ASSUME NEW i \in DOMAIN defers PROVE Rank(defers[i]) <= Rank(Last)
        OBVIOUS
      <3>1. Len(defers) \in DOMAIN defers /\ (i = Len(defers) \/ i < Len(defers))
        BY <2>1
      <3>2. CASE i = Len(defers)
        BY <3>2 DEF Last, Rank
      <3>3. CASE i < Len(defers)
        <4>1. Rank(defers[i]) < Rank(Last)
          BY <3>1, <3>3 DEF IInv, OrderFits, Last
        <4>. QED
          BY <4>1 DEF Rank
      <3>. QED
        BY <3>1, <3>2, <3>3
    <2>. QED
      BY <1>1, <2>2 DEF IInv, OrderFits, Services
  <1>. QED
    BY <1>4, <1>5, <1>6, <1>7, <1>8, <1>9 DEF IInv

\* The pool of Postgres is the last to go: below it nothing is deferred.
LEMMA LastClosedKeeps ==
  ASSUME IInv, LastClosed PROVE IInv'
  <1>1. /\ phase = "closing" /\ defers # <<>> /\ Last \in closed
        /\ Last = "postgres" => ~Held("postgres")
        /\ defers' = SubSeq(defers, 1, Len(defers) - 1)
        /\ UNCHANGED <<phase, opened, closed, server, handler, timedOut, exit>>
    BY DEF LastClosed
  <1>2. /\ defers \in Seq(Services) /\ Len(defers) \in Nat \ {0}
        /\ DOMAIN defers = 1..Len(defers)
    BY <1>1 DEF IInv, TypeOK
  <1>3. /\ defers' \in Seq(Services) /\ DOMAIN defers' = 1..(Len(defers) - 1)
        /\ \A i \in DOMAIN defers' : i \in DOMAIN defers /\ defers'[i] = defers[i]
    <2>1. \A i \in 1..(Len(defers) - 1) : defers[i] \in Services
      BY <1>2
    <2>2. /\ SubSeq(defers, 1, Len(defers) - 1) \in Seq(Services)
          /\ Len(SubSeq(defers, 1, Len(defers) - 1)) = Len(defers) - 1
          /\ \A i \in 1..(Len(defers) - 1) :
               SubSeq(defers, 1, Len(defers) - 1)[i] = defers[i]
      BY <1>2, <2>1
    <2>. QED
      BY <1>1, <1>2, <2>2
  <1>4. \A i \in DOMAIN defers : i = Len(defers) \/ i \in DOMAIN defers'
    BY <1>2, <1>3
  <1>5. Deferred' \subseteq Deferred /\ Deferred \subseteq Deferred' \cup {Last}
    BY <1>3, <1>4 DEF Deferred, Last
  <1>6. TypeOK'
    BY <1>1, <1>3 DEF IInv, TypeOK
  <1>7. DefersFit'
    BY <1>1, <1>3, <1>5 DEF IInv, DefersFit
  <1>8. EndFits' /\ DrainFits' /\ OrderFits'
    BY <1>1, <1>3 DEF IInv, EndFits, DrainFits, Active, Busy, OrderFits, Services
  <1>9. ClosedOnlyAfterTimeout'
    BY <1>1 DEF IInv, ClosedOnlyAfterTimeout, Active
  <1>10. PoolClosedLast'
    <2>. SUFFICES ASSUME "postgres" \in closed, "postgres" \notin Deferred'
                  PROVE  ~Held("postgres") /\ closed = opened
      BY <1>1 DEF PoolClosedLast, Deferred, Held
    <2>1. CASE "postgres" \notin Deferred
      BY <2>1 DEF IInv, PoolClosedLast, Deferred
    <2>2. CASE "postgres" \in Deferred
      <3>1. Last = "postgres"
        BY <2>2, <1>5
      <3>2. Len(defers) = 1
        BY <3>1, <1>2 DEF Last, IInv, DefersFit
      <3>3. Deferred' = {}
        BY <3>2, <1>3 DEF Deferred
      <3>. QED
        BY <3>1, <3>3, <1>1, <1>7 DEF DefersFit
    <2>. QED
      BY <2>1, <2>2
  <1>. QED
    BY <1>6, <1>7, <1>8, <1>9, <1>10 DEF IInv

LEMMA ReturnKeeps ==
  ASSUME IInv, Return PROVE IInv'
  <1>1. /\ phase = "closing" /\ phase' = "exited" /\ exit' = "clean"
        /\ defers = <<>> /\ server' = "closed"
        /\ UNCHANGED <<defers, opened, closed, handler, timedOut>>
    BY DEF Return, Exit
  <1>2. TypeOK'
    BY <1>1 DEF IInv, TypeOK
  <1>3. DefersFit'
    BY <1>1 DEF IInv, DefersFit, Deferred
  <1>4. EndFits' /\ DrainFits' /\ OrderFits'
    BY <1>1 DEF IInv, EndFits, DrainFits, OrderFits, Services
  <1>5. ClosedOnlyAfterTimeout' /\ PoolClosedLast'
    BY <1>1 DEF IInv, ClosedOnlyAfterTimeout, PoolClosedLast, Active, Held
  <1>. QED
    BY <1>2, <1>3, <1>4, <1>5 DEF IInv

\* A connection is accepted only while the server listens; its handler takes no
\* client that is closed, and meets one only if the drain timed out.
LEMMA HandlerKeeps ==
  ASSUME IInv, NEW h \in Handlers,
         \/ Accept(h) \/ Drop(h)
         \/ \E route \in Routes : Begin(h, route)
         \/ Use(h) \/ UseClosed(h) \/ Release(h) \/ Finish(h)
  PROVE  IInv'
  <1>1. UNCHANGED <<phase, defers, opened, closed, server, timedOut, exit>>
    BY DEF Accept, Drop, Begin, Use, UseClosed, Release, Finish, Set
  <1> DEFINE Moves(to) ==
          /\ handler' = [handler EXCEPT ![h] = to]
          /\ phase # "exited"
          /\ \/ server = "listening" /\ to.at = "open"
             \/ h \in Busy /\ to.at \in {"running", "answered", "dropped"}
             \/ h \in Active /\ to.at = "failed" /\ closed # {}
             \/ h \in Active /\ to.at = "using" /\ to.uses \notin closed
  <1>2. \E to \in [at : Places, uses : Routes] : Moves(to)
    <2>1. ASSUME NEW route \in Routes, Begin(h, route) PROVE Moves([at |-> "running", uses |-> route])
      BY <2>1 DEF Begin, Alive, Busy
    <2>2. ASSUME NEW from \in Places, NEW at \in Places, Set(h, from, at)
          PROVE  /\ [at |-> at, uses |-> handler[h].uses] \in [at : Places, uses : Routes]
                 /\ phase # "exited"
                 /\ from \in {"running", "using"} => h \in Active
                 /\ from \in {"running", "using", "open"} => h \in Busy
                 /\ handler' = [handler EXCEPT ![h] = [at |-> at, uses |-> handler[h].uses]]
      <3>1. handler[h] \in [at : Places, uses : Routes]
        BY DEF IInv, TypeOK
      <3>2. [handler[h] EXCEPT !.at = at] = [at |-> at, uses |-> handler[h].uses]
        BY <3>1
      <3>3. handler' = [handler EXCEPT ![h] = [handler[h] EXCEPT !.at = at]]
        BY <2>2 DEF Set
      <3>4. /\ phase # "exited" /\ handler[h].at = from
            /\ from \in {"running", "using"} => h \in Active
            /\ from \in {"running", "using", "open"} => h \in Busy
        BY <2>2 DEF Set, Alive, Active, Busy
      <3>. QED
        BY <3>1, <3>2, <3>3, <3>4
    <2>0. {"idle", "open", "dropped", "running", "using", "failed", "answered"} = Places
      BY DEF Places
    <2>3. CASE Use(h)
      <3>1. /\ Set(h, "running", "using") /\ handler[h].uses \notin closed
        BY <2>3 DEF Use
      <3>2. Moves([at |-> "using", uses |-> handler[h].uses])
        BY <3>1, <2>0, <2>2
      <3>. QED
        BY <3>1, <3>2, <2>0, <2>2
    <2>4. CASE UseClosed(h)
      <3>1. /\ Set(h, "running", "failed") /\ closed # {}
        BY <2>4 DEF UseClosed
      <3>2. Moves([at |-> "failed", uses |-> handler[h].uses])
        BY <3>1, <2>0, <2>2
      <3>. QED
        BY <3>1, <3>2, <2>0, <2>2
    <2>5. ASSUME NEW from \in {"running", "using", "open"},
                 NEW at \in {"running", "answered", "dropped"}, Set(h, from, at)
          PROVE  \E to \in [at : Places, uses : Routes] : Moves(to)
      <3>0. from \in Places /\ at \in Places
        BY <2>0
      <3>1. Moves([at |-> at, uses |-> handler[h].uses])
        BY <2>5, <3>0, <2>2
      <3>. QED
        BY <2>5, <3>0, <3>1, <2>2
    <2>6. CASE Accept(h)
      <3>1. Set(h, "idle", "open") /\ server = "listening"
        BY <2>6 DEF Accept
      <3>2. Moves([at |-> "open", uses |-> handler[h].uses])
        BY <3>1, <2>0, <2>2
      <3>. QED
        BY <3>1, <3>2, <2>0, <2>2
    <2>7. ASSUME NEW route \in Routes
          PROVE  [at |-> "running", uses |-> route] \in [at : Places, uses : Routes]
      BY <2>0
    <2>. QED
      BY <2>1, <2>3, <2>4, <2>5, <2>6, <2>7 DEF Release, Finish, Drop
  <1>3. PICK to \in [at : Places, uses : Routes] : Moves(to)
    BY <1>2
  <1>4. /\ handler' \in [Handlers -> [at : Places, uses : Routes]]
        /\ handler'[h] = to /\ \A g \in Handlers \ {h} : handler'[g] = handler[g]
    BY <1>3 DEF IInv, TypeOK
  <1>5. Busy' \subseteq Busy \/ server = "listening"
    <2>1. h \in Busy \/ server = "listening"
      BY <1>3 DEF Busy
    <2>. QED
      BY <1>4, <2>1 DEF Busy, Active
  <1>6. TypeOK'
    BY <1>1, <1>4 DEF IInv, TypeOK
  <1>7. DefersFit' /\ EndFits' /\ OrderFits'
    BY <1>1 DEF IInv, DefersFit, Deferred, EndFits, OrderFits, Services
  <1>8. /\ server = "listening" => closed = {} /\ phase # "closing"
        /\ phase # "exited" /\ (closed # {} => phase = "closing")
    BY <1>3 DEF IInv, DrainFits, EndFits
  <1>9. DrainFits'
    BY <1>1, <1>5, <1>8 DEF IInv, DrainFits
  <1>10. ClosedOnlyAfterTimeout'
    <2>1. closed' # {} /\ Active' # {} => timedOut'
      <3>. SUFFICES ASSUME closed # {}, Active' # {} PROVE timedOut
        BY <1>1
      <3>1. phase = "closing" /\ Busy' \subseteq Busy /\ Active' \subseteq Busy'
        BY <1>5, <1>8 DEF Busy
      <3>. QED
        BY <3>1 DEF IInv, DrainFits
    <2>2. ASSUME NEW g \in Handlers, handler'[g].at = "failed" PROVE timedOut'
      <3>1. CASE g = h
        BY <3>1, <2>2, <1>1, <1>3, <1>4 DEF IInv, ClosedOnlyAfterTimeout
      <3>2. CASE g # h
        BY <3>2, <2>2, <1>1, <1>4 DEF IInv, ClosedOnlyAfterTimeout
      <3>. QED
        BY <3>1, <3>2
    <2>. QED
      BY <2>1, <2>2 DEF ClosedOnlyAfterTimeout
  <1>11. PoolClosedLast'
    <2>1. ASSUME "postgres" \in closed, ~Held("postgres") PROVE ~Held("postgres")'
      <3>1. ~(to.at = "using" /\ to.uses = "postgres")
        BY <1>3, <2>1
      <3>. QED
        BY <2>1, <3>1, <1>4 DEF Held
    <2>. QED
      BY <2>1, <1>1 DEF IInv, PoolClosedLast
  <1>. QED
    BY <1>6, <1>7, <1>9, <1>10, <1>11 DEF IInv

LEMMA Keeps == IInv /\ [Next]_vars => IInv'
  <1>. SUFFICES ASSUME IInv, [Next]_vars PROVE IInv'
    OBVIOUS
  <1>1. CASE UNCHANGED vars
    BY <1>1 DEF vars, IInv, TypeOK, DefersFit, Deferred, OrderFits, Services, EndFits,
                DrainFits, Active, Busy, ClosedOnlyAfterTimeout, PoolClosedLast, Held
  <1>2. CASE Next
    <2>1. CASE LoadFails \/ Fatal \/ Killed
      BY <2>1, FatalKeeps
    <2>2. CASE Load \/ Proceed \/ StartServer \/ \E s \in Services : OpenFails(s)
      BY <2>2, StartupKeeps
    <2>3. CASE Listen \/ ListenFails \/ Signal
      BY <2>3, SignalKeeps
    <2>4. CASE \E s \in Services : Open(s)
      BY <2>4, OpenKeeps
    <2>5. CASE Drained \/ DrainTimesOut
      BY <2>5, DrainKeeps
    <2>6. CASE CloseLast \/ LastClosed \/ Return
      BY <2>6, CloseLastKeeps, LastClosedKeeps, ReturnKeeps
    <2>7. ASSUME NEW h \in Handlers,
                 \/ Accept(h) \/ Drop(h)
                 \/ \E route \in Routes : Begin(h, route)
                 \/ Use(h) \/ UseClosed(h) \/ Release(h) \/ Finish(h)
          PROVE  IInv'
      BY <2>7, HandlerKeeps
    <2>. QED
      BY <1>2, <2>1, <2>2, <2>3, <2>4, <2>5, <2>6, <2>7 DEF Next
  <1>. QED
    BY <1>1, <1>2

\* The inductive invariant of the process.
THEOREM IInvHolds == Spec => []IInv
  BY InitEstablishes, Keeps, PTL DEF Spec

\* Every variable holds values of its kind.
THEOREM TypeCorrect == Spec => []TypeOK
  <1>1. IInv => TypeOK
    BY DEF IInv
  <1>. QED
    BY <1>1, IInvHolds, PTL

\* However many requests are in flight, one meets a closed client only if the
\* drain timed out.
THEOREM NothingTakenFromDrained == Spec => []ClosedOnlyAfterTimeout
  <1>1. IInv => ClosedOnlyAfterTimeout
    BY DEF IInv
  <1>. QED
    BY <1>1, IInvHolds, PTL

\* The pool of Postgres closes last and with none of its connections in use.
THEOREM PoolAlwaysClosedLast == Spec => []PoolClosedLast
  <1>1. IInv => PoolClosedLast
    BY DEF IInv
  <1>. QED
    BY <1>1, IInvHolds, PTL

\* main opens Postgres, then Redis, then the RPC client.
LEMMA OpenedInRank ==
  ASSUME NEW s \in Services, NEW t \in Services, OpenedBefore(s, t)
  PROVE  Rank(s) < Rank(t)
  <1>1. PICK i \in DOMAIN Startup, j \in DOMAIN Startup :
          i < j /\ Startup[i] = s /\ Startup[j] = t
    BY DEF OpenedBefore
  <1>2. DOMAIN Startup = 1..7 /\ \A k \in 1..7 : Startup[k] \in Services => Rank(Startup[k]) = k
    BY DEF Startup, Services, Rank
  <1>. QED
    BY <1>1, <1>2

\* Wherever the closes are cut off, they ran in the reverse order of the start;
\* a clean end ran them all.
THEOREM ClosesAlwaysUnwind == Spec => []ClosesUnwind
  <1>1. IInv => ClosesUnwind
    <2>. SUFFICES ASSUME IInv PROVE ClosesUnwind
      OBVIOUS
    <2>1. exit = "clean" => closed = opened
      <3>1. defers = <<>> => Deferred = {}
        BY DEF Deferred
      <3>. QED
        BY <3>1 DEF IInv, EndFits, DefersFit
    <2>2. ASSUME NEW s \in closed, NEW t \in opened, OpenedBefore(s, t)
          PROVE  t \in closed
      <3>1. s \in Services /\ t \in Services
        BY DEF IInv, TypeOK
      <3>2. Rank(s) < Rank(t)
        BY <2>2, <3>1, OpenedInRank
      <3>3. t \notin Deferred
        <4>. SUFFICES ASSUME NEW i \in DOMAIN defers, defers[i] = t PROVE FALSE
          BY DEF Deferred
        <4>1. Rank(t) <= Rank(s)
          BY DEF IInv, OrderFits
        <4>. QED
          BY <3>2, <4>1 DEF Rank
      <3>. QED
        BY <3>3 DEF IInv, DefersFit
    <2>. QED
      BY <2>1, <2>2 DEF ClosesUnwind
  <1>. QED
    BY <1>1, IInvHolds, PTL

-----------------------------------------------------------------------------
(* The health probe: Health, for every budget and every way the services may
   be slow or broken. *)

\* The services that count.
Judged == {"postgres", "redis"}

\* The time that a service which is done with has taken.
Taken(s) == IF s \in asked THEN Time(s) ELSE 0

\* The pings go in turn.
InTurn == \A s \in asked : Before(s) \subseteq asked

\* Until the RPC node's turn, what is left of the budget is at least what the
\* other two have not taken.
Accounted ==
  "evm" \notin asked => left + Taken("postgres") + Taken("redis") >= Budget

\* What the probe says of a service that counts.
WordsFit ==
  \A s \in Judged :
    /\ s \in asked \cap reached \cap broken => services[s] = "error"
    /\ services[s] = "error" => s \in reached \cap broken \/ Spent >= Budget

VerdictFits ==
  /\ status # "none" => asked = Pinged
  /\ status = "ok" => \A s \in Judged : services[s] # "error"
  /\ status = "error" => \E s \in Judged : services[s] = "error"

ProbeInv == ProbeTypeOK /\ InTurn /\ Accounted /\ WordsFit /\ VerdictFits

LEMMA ProbeInitEstablishes == ProbeInit => ProbeInv
BY HealthInputs DEF ProbeInit, ProbeInv, ProbeTypeOK, InTurn, Accounted, WordsFit, VerdictFits,
   Pinged, Judged, Taken, Time

\* What every step but the verdict shares: a word about a service whose turn
\* it is.
LEMMA SayKeepsControl ==
  ASSUME ProbeInv, NEW s \in Pinged, NEW word \in {"ok", "error", "disabled"},
         Turn(s), Say(s, word)
  PROVE  /\ InTurn' /\ VerdictFits'
         /\ services' \in [Pinged -> {"ok", "error", "disabled"}]
         /\ services'[s] = word
         /\ \A t \in Pinged \ {s} : services'[t] = services[t]
         /\ asked' = asked \cup {s} /\ asked' \subseteq Pinged
  <1>1. /\ services \in [Pinged -> {"ok", "error", "disabled"}]
        /\ asked \subseteq Pinged /\ status = "none" /\ status' = "none"
        /\ asked' = asked \cup {s} /\ services' = [services EXCEPT ![s] = word]
    BY DEF ProbeInv, ProbeTypeOK, Turn, Say
  <1>2. InTurn'
    BY <1>1 DEF ProbeInv, InTurn, Turn
  <1>3. VerdictFits'
    BY <1>1 DEF VerdictFits
  <1>. QED
    BY <1>1, <1>2, <1>3

\* A skipped service takes no time and is not blamed.
LEMMA SkipKeeps ==
  ASSUME ProbeInv, NEW s \in Pinged, Skip(s) PROVE ProbeInv'
  <1>1. /\ Turn(s) /\ Say(s, "disabled") /\ s \notin reached
        /\ left' = left /\ reached' = reached /\ broken' = broken
        /\ latency' = latency /\ status' = status
    BY DEF Skip, Say
  <1>2. /\ InTurn' /\ VerdictFits' /\ asked' = asked \cup {s}
        /\ asked' \subseteq Pinged
        /\ services' \in [Pinged -> {"ok", "error", "disabled"}]
        /\ services'[s] = "disabled"
        /\ \A t \in Pinged \ {s} : services'[t] = services[t]
    BY <1>1, SayKeepsControl
  <1>3. ProbeTypeOK'
    BY <1>1, <1>2 DEF ProbeInv, ProbeTypeOK
  <1>4. Accounted'
    BY <1>1, <1>2, HealthInputs
    DEF ProbeInv, ProbeTypeOK, Accounted, Taken, Time, Pinged
  <1>5. WordsFit'
    BY <1>1, <1>2 DEF ProbeInv, WordsFit, Judged, Pinged, Spent, Time
  <1>. QED
    BY <1>2, <1>3, <1>4, <1>5 DEF ProbeInv

\* An answer in time takes its time off the budget.
LEMMA AnsweredKeeps ==
  ASSUME ProbeInv, NEW s \in Pinged, Answered(s) PROVE ProbeInv'
  <1> DEFINE word == IF s \in broken THEN "error" ELSE "ok"
  <1>1. /\ Turn(s) /\ Say(s, word) /\ s \in reached /\ latency[s] < left
        /\ left' = left - latency[s] /\ reached' = reached /\ broken' = broken
        /\ latency' = latency /\ status' = status
    BY DEF Answered, Say
  <1>2. /\ InTurn' /\ VerdictFits' /\ asked' = asked \cup {s}
        /\ asked' \subseteq Pinged
        /\ services' \in [Pinged -> {"ok", "error", "disabled"}]
        /\ services'[s] = word
        /\ \A t \in Pinged \ {s} : services'[t] = services[t]
    BY <1>1, SayKeepsControl
  <1>3. left' \in 0..Budget
    <2>1. latency[s] \in Nat /\ left \in 0..Budget /\ Budget \in Nat
      BY HealthInputs DEF ProbeInv, ProbeTypeOK
    <2>. QED
      BY <1>1, <2>1
  <1>4. ProbeTypeOK'
    BY <1>1, <1>2, <1>3 DEF ProbeInv, ProbeTypeOK
  <1>5. Accounted'
    <2>. SUFFICES ASSUME s # "evm", "evm" \notin asked
                  PROVE  left' + Taken("postgres")' + Taken("redis")' >= Budget
      BY <1>2 DEF Accounted
    <2>1. \A t \in Pinged : latency[t] \in Nat /\ Time(t) \in Nat /\ Time(t)' = Time(t)
      BY <1>1, HealthInputs DEF ProbeInv, ProbeTypeOK, Time
    <2>2. /\ left \in Nat /\ Budget \in Nat /\ Taken(s)' = latency[s] /\ Taken(s) = 0
          /\ left + Taken("postgres") + Taken("redis") >= Budget
      BY <1>1, <1>2, HealthInputs DEF ProbeInv, ProbeTypeOK, Accounted, Taken, Time, Turn
    <2>3. \A t \in {"postgres", "redis"} \ {s} : Taken(t)' = Taken(t) /\ Taken(t) \in Nat
      BY <1>2, <2>1 DEF Taken, Pinged
    <2>4. s \in {"postgres", "redis"}
      BY DEF Pinged
    <2>. QED
      BY <1>1, <2>1, <2>2, <2>3, <2>4
  <1>6. WordsFit'
    BY <1>1, <1>2 DEF ProbeInv, WordsFit, Judged, Pinged, Spent, Time
  <1>. QED
    BY <1>2, <1>4, <1>5, <1>6 DEF ProbeInv

\* A service that counts and outlasts the budget was preceded by the others
\* that count, so that together they have used it up.
LEMMA ExpiredKeeps ==
  ASSUME ProbeInv, NEW s \in Pinged, Expired(s) PROVE ProbeInv'
  <1>1. PICK word \in {"ok", "error"} :
          /\ Turn(s) /\ Say(s, word) /\ s \in reached /\ latency[s] >= left
          /\ left' = 0 /\ reached' = reached /\ broken' = broken
          /\ latency' = latency /\ status' = status
          /\ word = "ok" => s \notin broken
    BY DEF Expired, Say
  <1>2. /\ InTurn' /\ VerdictFits' /\ asked' = asked \cup {s}
        /\ asked' \subseteq Pinged
        /\ services' \in [Pinged -> {"ok", "error", "disabled"}]
        /\ services'[s] = word
        /\ \A t \in Pinged \ {s} : services'[t] = services[t]
    BY <1>1, SayKeepsControl
  <1>3. ProbeTypeOK'
    BY <1>1, <1>2, HealthInputs DEF ProbeInv, ProbeTypeOK
  <1>4. s \in Judged => Taken("postgres")' + Taken("redis")' >= Budget
    <2>. SUFFICES ASSUME s \in Judged
                  PROVE  Taken("postgres")' + Taken("redis")' >= Budget
      OBVIOUS
    <2>1. "evm" \notin asked
      BY <1>1 DEF ProbeInv, InTurn, Before, Judged, Turn
    <2>2. \A t \in Pinged : latency[t] \in Nat /\ Time(t) \in Nat /\ Time(t)' = Time(t)
      BY <1>1, HealthInputs DEF ProbeInv, ProbeTypeOK, Time
    <2>3. /\ left \in Nat /\ Budget \in Nat /\ Taken(s)' = latency[s] /\ Taken(s) = 0
          /\ left + Taken("postgres") + Taken("redis") >= Budget
      BY <1>1, <1>2, <2>1, HealthInputs DEF ProbeInv, ProbeTypeOK, Accounted, Taken, Time, Turn
    <2>4. \A t \in Judged \ {s} : Taken(t)' = Taken(t) /\ Taken(t) \in Nat
      BY <1>2, <2>2 DEF Taken, Pinged, Judged
    <2>. QED
      BY <1>1, <2>2, <2>3, <2>4 DEF Judged, Pinged
  <1>5. Accounted'
    <2>1. "evm" \notin asked' => s \in Judged
      BY <1>2 DEF Pinged, Judged
    <2>2. Taken("postgres")' \in Nat /\ Taken("redis")' \in Nat
      BY <1>1, HealthInputs DEF ProbeInv, ProbeTypeOK, Taken, Time, Pinged
    <2>. QED
      BY <1>1, <1>4, <2>1, <2>2 DEF Accounted
  <1>6. s \in Judged => Spent' >= Budget
    <2>1. \A t \in Judged : Time(t)' \in Nat /\ Taken(t)' \in {0, Time(t)'}
      BY <1>1, HealthInputs DEF ProbeInv, ProbeTypeOK, Taken, Time, Pinged, Judged
    <2>2. Budget \in Nat
      BY HealthInputs
    <2>. QED
      BY <1>4, <2>1, <2>2 DEF Spent, Judged
  <1>7. Spent' = Spent
    BY <1>1 DEF Spent, Time
  <1>8. WordsFit'
    <2>. SUFFICES ASSUME NEW t \in Judged
                  PROVE  /\ t \in asked' \cap reached \cap broken => services'[t] = "error"
                         /\ services'[t] = "error" =>
                              t \in reached \cap broken \/ Spent' >= Budget
      BY <1>1 DEF WordsFit
    <2>1. CASE t = s
      BY <2>1, <1>1, <1>2, <1>6
    <2>2. CASE t # s
      BY <2>2, <1>1, <1>2, <1>7 DEF ProbeInv, WordsFit, Judged, Pinged
    <2>. QED
      BY <2>1, <2>2
  <1>. QED
    BY <1>2, <1>3, <1>5, <1>8 DEF ProbeInv

LEMMA JudgeKeeps ==
  ASSUME ProbeInv, Judge PROVE ProbeInv'
  <1>1. /\ asked = Pinged /\ status' \in {"ok", "error"}
        /\ UNCHANGED <<reached, latency, broken, left, services, asked>>
        /\ status' = "error" <=>
             services["postgres"] = "error" \/ services["redis"] = "error"
    BY DEF Judge
  <1>2. ProbeTypeOK'
    BY <1>1 DEF ProbeInv, ProbeTypeOK
  <1>3. InTurn' /\ Accounted' /\ WordsFit'
    BY <1>1 DEF ProbeInv, InTurn, Accounted, WordsFit, Taken, Time, Spent
  <1>4. VerdictFits'
    BY <1>1 DEF VerdictFits, Judged
  <1>. QED
    BY <1>2, <1>3, <1>4 DEF ProbeInv

LEMMA ProbeKeeps == ProbeInv /\ [ProbeNext]_probeVars => ProbeInv'
  <1>. SUFFICES ASSUME ProbeInv, [ProbeNext]_probeVars PROVE ProbeInv'
    OBVIOUS
  <1>1. CASE UNCHANGED probeVars
    BY <1>1 DEF probeVars, ProbeInv, ProbeTypeOK, InTurn, Accounted, WordsFit, VerdictFits,
                Taken, Time, Spent
  <1>2. ASSUME NEW s \in Pinged, Skip(s) \/ Answered(s) \/ Expired(s) PROVE ProbeInv'
    BY <1>2, SkipKeeps, AnsweredKeeps, ExpiredKeeps
  <1>3. CASE Judge
    BY <1>3, JudgeKeeps
  <1>. QED
    BY <1>1, <1>2, <1>3 DEF ProbeNext

\* The inductive invariant of a probe.
THEOREM ProbeInvHolds == ProbeSpec => []ProbeInv
  BY ProbeInitEstablishes, ProbeKeeps, PTL DEF ProbeSpec

\* Every variable holds values of its kind; in particular the budget is never
\* overdrawn.
THEOREM ProbeTypeCorrect == ProbeSpec => []ProbeTypeOK
  <1>1. ProbeInv => ProbeTypeOK
    BY DEF ProbeInv
  <1>. QED
    BY <1>1, ProbeInvHolds, PTL

\* 200 means that each of Postgres and Redis that is there has answered well.
THEOREM OkAlwaysMeansAnswered == ProbeSpec => []OkMeansAnswered
  <1>1. ProbeInv => OkMeansAnswered
    BY DEF ProbeInv, VerdictFits, WordsFit, OkMeansAnswered, Judged, Pinged
  <1>. QED
    BY <1>1, ProbeInvHolds, PTL

\* 503 means that Postgres or Redis is broken, or that they are too slow.
THEOREM BlameIsAlwaysEarned == ProbeSpec => []BlameIsEarned
  <1>1. ProbeInv => BlameIsEarned
    BY DEF ProbeInv, VerdictFits, WordsFit, BlameIsEarned, Judged
  <1>. QED
    BY <1>1, ProbeInvHolds, PTL

=============================================================================
