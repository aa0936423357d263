---------------------------- MODULE GoldenProofs ----------------------------
(***************************************************************************)
(* Theorems about the golden files: for any scenarios, and whatever the    *)
(* back ends refuse and wherever they die, a session stays in step with    *)
(* its process, a golden file holds the answers to its own requests, and   *)
(* no difference is reported that the back ends did not make.              *)
(***************************************************************************)
EXTENDS Golden, TLAPS

\* What a back end makes of a request, or has not made of it yet.
Deeds == Answers \union {"unasked"}

\* What a scenario records of a request that fails.
Failure(s, k) == IF Scenarios[s][k] = "follow" THEN NOSPECS ELSE ERROR

\* The value v, recorded for request k of scenario s, tells of the deed what.
Tells(v, what, s, k) ==
    IF v \in Answered THEN what = v
    ELSE what \notin Answered /\ v = Failure(s, k)

\* A record of the first requests of scenario s.
RecordOf(record, s, deeds) ==
    /\ record \in Seq(Recorded)
    /\ Len(record) <= Len(Scenarios[s])
    /\ \A k \in 1..Len(record) : Tells(record[k], deeds[k], s, k)

Busy == client # "start"

Shape ==
    /\ which \in Backends \union {"compare", "done"}
    /\ scen \in 1..(Len(Scenarios) + 1)
    /\ req \in Nat \ {0}
    /\ client \in {"start", "ask", "code", "items", "stop", "failed"}
    /\ alive \in BOOLEAN
    /\ exit \in {-1, 0, 1}
    /\ asked \in Nat
    /\ pipe \in Seq(Recorded \union {"FOLLOWLINK", "RETRIEVEV", "?"})

DidShape ==
    /\ DOMAIN did = Backends
    /\ \A b \in Backends :
          /\ DOMAIN did[b] = DOMAIN Scenarios
          /\ \A s \in DOMAIN Scenarios :
                /\ DOMAIN did[b][s] = DOMAIN Scenarios[s]
                /\ \A k \in DOMAIN Scenarios[s] : did[b][s][k] \in Deeds

\* Where the session stands, and what the process has made of the request.
Idle == client = "start" => ~alive /\ asked = 0 /\ pipe = << >> /\ ops = << >> /\ req = 1

Asking == client = "ask" => asked = 0 /\ pipe = << >>

AwaitsCode ==
    client = "code" =>
       LET deed == did[which][scen][req]
       IN  \/ asked = req /\ alive /\ pipe = << >> /\ deed = "unasked"
           \/ /\ asked = 0 /\ deed \in Answers /\ pipe \in AnswerTo(req, deed)
              /\ alive = (deed # "dies")

AwaitsItems ==
    client = "items" =>
       LET deed == did[which][scen][req]
       IN  /\ asked = 0
           /\ \/ deed \in Answered /\ pipe = <<deed>> /\ alive
              \/ deed = "dies" /\ pipe = << >> /\ ~alive

Over == client \in {"stop", "failed"} => asked = 0

Phase == Idle /\ Asking /\ AwaitsCode /\ AwaitsItems /\ Over

\* A busy session is in the middle of a scenario, and has recorded what it has
\* asked for.
Progress ==
    Busy =>
       /\ which \in Backends /\ scen \in DOMAIN Scenarios
       /\ RecordOf(ops, scen, did[which][scen])
       /\ client \in {"ask", "code", "items"} => /\ req \in DOMAIN Scenarios[scen]
                                                 /\ Len(ops) = req - 1
       /\ client = "stop" => Len(ops) = Len(Scenarios[scen])

\* What has not been asked yet.
Ahead ==
    /\ which \in Backends =>
          /\ \A s \in DOMAIN Scenarios : s > scen =>
                \A k \in DOMAIN Scenarios[s] : did[which][s][k] = "unasked"
          /\ client = "start" => \A s \in DOMAIN Scenarios : s = scen =>
                \A k \in DOMAIN Scenarios[s] : did[which][s][k] = "unasked"
          /\ client = "ask" => \A k \in DOMAIN Scenarios[scen] :
                k >= req => did[which][scen][k] = "unasked"
          /\ client \in {"code", "items"} => \A k \in DOMAIN Scenarios[scen] :
                k > req => did[which][scen][k] = "unasked"
    /\ which = "reference" => \A s \in DOMAIN Scenarios : \A k \in DOMAIN Scenarios[s] :
                                 did["actual"][s][k] = "unasked"

\* The files tell of the scenarios that are over.
Files ==
    /\ DOMAIN golden = Backends
    /\ \A b \in Backends : \A s \in DOMAIN golden[b] :
          /\ s \in DOMAIN Scenarios
          /\ RecordOf(golden[b][s], s, did[b][s])
          /\ Len(golden[b][s]) = Len(Scenarios[s])
          /\ b = which => s < scen
          /\ which = "reference" => b = "reference"

\* A difference that is reported was made by the back ends.
Reported == (exit = 1 => which = "done") /\ NoFalseAlarm

IInv == Shape /\ DidShape /\ Phase /\ Progress /\ Ahead /\ Files /\ Reported

-----------------------------------------------------------------------------

LEMMA ScenarioFacts ==
    /\ Len(Scenarios) \in Nat
    /\ DOMAIN Scenarios = 1..Len(Scenarios)
    /\ \A s \in DOMAIN Scenarios :
          /\ Scenarios[s] \in Seq({"plain", "guarded", "follow"})
          /\ Scenarios[s] # << >>
          /\ Len(Scenarios[s]) \in Nat \ {0}
          /\ DOMAIN Scenarios[s] = 1..Len(Scenarios[s])
          /\ \A k \in DOMAIN Scenarios[s] : Scenarios[s][k] \in {"plain", "guarded", "follow"}
<1>1. Scenarios \in Seq(Seq({"plain", "guarded", "follow"}) \ {<< >>})
  BY GoldenAssumption
<1>2. Len(Scenarios) \in Nat /\ DOMAIN Scenarios = 1..Len(Scenarios)
  BY <1>1
<1>3. ASSUME NEW s \in DOMAIN Scenarios
      PROVE  Scenarios[s] \in Seq({"plain", "guarded", "follow"}) \ {<< >>}
  BY <1>1, <1>3
<1>4. ASSUME NEW t \in Seq({"plain", "guarded", "follow"}), t # << >>
      PROVE  /\ Len(t) \in Nat \ {0}
             /\ DOMAIN t = 1..Len(t)
             /\ \A k \in DOMAIN t : t[k] \in {"plain", "guarded", "follow"}
  BY <1>4
<1> QED  BY <1>2, <1>3, <1>4

LEMMA InitIInv == Init => IInv
<1> SUFFICES ASSUME Init PROVE IInv
  OBVIOUS
<1>1. Shape
  <2>1. which \in Backends /\ alive \in BOOLEAN /\ exit \in {-1, 0, 1}
    BY DEF Init, Backends
  <2>2. scen \in 1..(Len(Scenarios) + 1)
    BY ScenarioFacts DEF Init
  <2>3. pipe \in Seq(Recorded \union {"FOLLOWLINK", "RETRIEVEV", "?"})
    BY DEF Init
  <2> QED  BY <2>1, <2>2, <2>3 DEF Init, Shape
<1>2. DidShape
  BY DEF Init, DidShape, Deeds
<1>3. Phase
  BY DEF Init, Phase, Idle, Asking, AwaitsCode, AwaitsItems, Over
<1>4. Progress
  BY DEF Init, Progress, Busy
<1>5. Ahead
  BY DEF Init, Ahead, Backends
<1>6. Files
  BY DEF Init, Files
<1>7. Reported
  BY DEF Init, Reported, NoFalseAlarm
<1> QED  BY <1>1, <1>2, <1>3, <1>4, <1>5, <1>6, <1>7 DEF IInv

-----------------------------------------------------------------------------
(* The back end. *)

\* What a process does to a request changes one deed.
LEMMA DeedDone ==
    ASSUME DidShape, which \in Backends, scen \in DOMAIN Scenarios,
           asked \in DOMAIN Scenarios[scen], NEW what \in Answers,
           did' = [did EXCEPT ![which][scen][asked] = what]
    PROVE  /\ DidShape'
           /\ \A b \in Backends : \A s \in DOMAIN Scenarios : \A k \in DOMAIN Scenarios[s] :
                 did'[b][s][k] = IF b = which /\ s = scen /\ k = asked THEN what
                                 ELSE did[b][s][k]
<1>1. DOMAIN did' = Backends
  BY DEF DidShape
<1>2. \A b \in Backends : DOMAIN did'[b] = DOMAIN Scenarios
  BY DEF DidShape
<1>3. \A b \in Backends : \A s \in DOMAIN Scenarios : DOMAIN did'[b][s] = DOMAIN Scenarios[s]
  BY DEF DidShape
<1>4. \A b \in Backends : \A s \in DOMAIN Scenarios : \A k \in DOMAIN Scenarios[s] :
         did'[b][s][k] = IF b = which /\ s = scen /\ k = asked THEN what ELSE did[b][s][k]
  BY DEF DidShape
<1>5. \A b \in Backends : \A s \in DOMAIN Scenarios : \A k \in DOMAIN Scenarios[s] :
         did'[b][s][k] \in Deeds
  BY <1>4 DEF DidShape, Deeds
<1> QED  BY <1>1, <1>2, <1>3, <1>4, <1>5 DEF DidShape

LEMMA AnswerInPipe ==
    ASSUME NEW k, NEW what \in Answers, NEW answer \in AnswerTo(k, what)
    PROVE  answer \in Seq(Recorded \union {"FOLLOWLINK", "RETRIEVEV", "?"})
<1>1. what \in {"same", "moved", "changed", "refused", "dies"}
  BY GoldenAssumption
<1>2. Code(scen, k) \in {"FOLLOWLINK", "RETRIEVEV"}
  BY DEF Code
<1>3. CASE what = "refused"
  <2>1. answer = <<"?">>
    BY <1>3 DEF AnswerTo
  <2> QED  BY <2>1
<1>4. CASE what = "dies"
  <2>1. answer = << >> \/ answer = <<Code(scen, k)>>
    BY <1>4 DEF AnswerTo
  <2>2. \A c \in {"FOLLOWLINK", "RETRIEVEV"} :
           <<c>> \in Seq(Recorded \union {"FOLLOWLINK", "RETRIEVEV", "?"})
    OBVIOUS
  <2>3. << >> \in Seq(Recorded \union {"FOLLOWLINK", "RETRIEVEV", "?"})
    OBVIOUS
  <2> QED  BY <1>2, <2>1, <2>2, <2>3, Zenon
<1>5. CASE what \notin {"refused", "dies"}
  <2>1. answer = <<Code(scen, k), what>>
    BY <1>5 DEF AnswerTo
  <2>2. what \in Recorded
    BY <1>1, <1>5 DEF Recorded
  <2> QED  BY <1>2, <2>1, <2>2
<1> QED  BY <1>3, <1>4, <1>5

LEMMA ServesKeeps == IInv /\ Serves => IInv'
<1> SUFFICES ASSUME IInv, Serves PROVE IInv'
  OBVIOUS
<1>1. PICK what \in MayDo :
         /\ \E answer \in AnswerTo(asked, what) : pipe' = pipe \o answer
         /\ did' = [did EXCEPT ![which][scen][asked] = what]
         /\ alive' = (what # "dies")
  BY DEF Serves
<1>2. PICK answer \in AnswerTo(asked, what) : pipe' = pipe \o answer
  BY <1>1
<1>3. what \in Answers
  BY DEF MayDo
<1>4. client = "code" /\ asked = req /\ pipe = << >>
  BY DEF IInv, Serves, Shape, Phase, Idle, Asking, AwaitsCode, AwaitsItems, Over
<1>5. which \in Backends /\ scen \in DOMAIN Scenarios /\ req \in DOMAIN Scenarios[scen]
      /\ Len(ops) = req - 1
  BY <1>4 DEF IInv, Progress, Busy
<1>6. /\ DidShape'
      /\ \A b \in Backends : \A s \in DOMAIN Scenarios : \A k \in DOMAIN Scenarios[s] :
            did'[b][s][k] = IF b = which /\ s = scen /\ k = req THEN what ELSE did[b][s][k]
  <2>1. DidShape /\ asked \in DOMAIN Scenarios[scen]
    BY <1>4, <1>5 DEF IInv
  <2>2. did' = [did EXCEPT ![which][scen][asked] = what]
    BY <1>1
  <2>3. /\ DidShape'
        /\ \A b \in Backends : \A s \in DOMAIN Scenarios : \A k \in DOMAIN Scenarios[s] :
              did'[b][s][k] = IF b = which /\ s = scen /\ k = asked THEN what ELSE did[b][s][k]
    BY <1>3, <1>5, <2>1, <2>2, DeedDone
  <2> QED  BY <1>4, <2>3
<1>7. UNCHANGED <<golden, which, scen, req, client, ops, exit>> /\ asked' = 0
  BY DEF Serves
<1>8. pipe' = answer /\ pipe' \in Seq(Recorded \union {"FOLLOWLINK", "RETRIEVEV", "?"})
  BY <1>2, <1>3, <1>4, AnswerInPipe
<1>9. Shape'
  BY <1>1, <1>7, <1>8 DEF IInv, Shape
<1>10. Phase'
  <2>1. did'[which'][scen'][req'] = what
    BY <1>5, <1>6, <1>7
  <2>2. pipe' \in AnswerTo(req, what)
    BY <1>4, <1>8
  <2>3. AwaitsCode'
    BY <1>1, <1>3, <1>7, <2>1, <2>2 DEF AwaitsCode, AnswerTo, Code
  <2> QED  BY <1>4, <1>7, <2>3 DEF Phase, Idle, Asking, AwaitsItems, Over
<1>11. Progress'
  <2>1. \A k \in 1..Len(ops) : k \in DOMAIN Scenarios[scen] /\ k # req
    BY <1>5, ScenarioFacts
  <2>2. RecordOf(ops, scen, did'[which][scen])
    BY <1>5, <1>6, <1>4, <2>1 DEF IInv, Progress, Busy, RecordOf
  <2> QED  BY <1>4, <1>5, <1>7, <2>2 DEF Progress, Busy
<1>12. Ahead'
  <2>1. req \in Nat
    BY DEF IInv, Shape
  <2>2. \A k \in DOMAIN Scenarios[scen] : k > req => did'[which][scen][k] = "unasked"
    BY <1>4, <1>5, <1>6, <2>1, ScenarioFacts DEF IInv, Ahead
  <2>3. \A s \in DOMAIN Scenarios : s > scen =>
           \A k \in DOMAIN Scenarios[s] : did'[which][s][k] = "unasked"
    BY <1>5, <1>6, ScenarioFacts DEF IInv, Ahead
  <2>4. which = "reference" => \A s \in DOMAIN Scenarios : \A k \in DOMAIN Scenarios[s] :
                                 did'["actual"][s][k] = "unasked"
    BY <1>6 DEF IInv, Ahead, Backends
  <2> QED  BY <1>4, <1>7, <2>2, <2>3, <2>4 DEF Ahead
<1>13. Files'
  <2> SUFFICES ASSUME NEW b \in Backends, NEW s \in DOMAIN golden[b]
               PROVE  RecordOf(golden[b][s], s, did'[b][s])
    BY <1>7 DEF IInv, Files
  <2>1. /\ s \in DOMAIN Scenarios
        /\ RecordOf(golden[b][s], s, did[b][s])
        /\ Len(golden[b][s]) = Len(Scenarios[s])
        /\ b = which => s < scen
    BY DEF IInv, Files
  <2>2. ~(b = which /\ s = scen)
    BY <1>5, <2>1, ScenarioFacts
  <2>3. \A k \in 1..Len(golden[b][s]) : did'[b][s][k] = did[b][s][k]
    BY <1>6, <2>1, <2>2, ScenarioFacts
  <2> QED  BY <2>1, <2>3 DEF RecordOf
<1>14. Reported'
  BY <1>5, <1>7 DEF IInv, Reported, Backends, NoFalseAlarm
<1> QED  BY <1>6, <1>9, <1>10, <1>11, <1>12, <1>13, <1>14 DEF IInv

-----------------------------------------------------------------------------
(* The session. *)

\* A step of the session within a scenario leaves the files alone.
LEMMA FilesStay ==
    ASSUME IInv, UNCHANGED <<golden, which, scen, did, exit>>
    PROVE  DidShape' /\ Files' /\ Reported'
<1>1. DidShape'
  BY DEF IInv, DidShape
<1>2. Files'
  BY DEF IInv, Files
<1>3. Reported'
  BY DEF IInv, Reported, NoFalseAlarm
<1> QED  BY <1>1, <1>2, <1>3

\* A value that tells of the request goes to the end of the record.
LEMMA RecordingKeeps ==
    ASSUME IInv, client \in {"ask", "code", "items"},
           UNCHANGED <<golden, which, scen, did, exit, alive>>,
           asked' = 0, pipe' = << >>,
           NEW value \in Recorded, Records(value),
           Tells(value, did[which][scen][req], scen, req)
    PROVE  IInv'
<1>1. /\ which \in Backends /\ scen \in DOMAIN Scenarios /\ req \in DOMAIN Scenarios[scen]
      /\ Len(ops) = req - 1 /\ RecordOf(ops, scen, did[which][scen])
  BY DEF IInv, Progress, Busy
<1>2. /\ ops' = Append(ops, value) /\ req' = req + 1
      /\ client' = IF req = Len(Scenarios[scen]) THEN "stop" ELSE "ask"
  BY DEF Records, Script
<1>3. req \in Nat \ {0} /\ Len(Scenarios[scen]) \in Nat /\ req <= Len(Scenarios[scen])
  BY <1>1, ScenarioFacts
<1>4. Shape'
  BY <1>2, <1>3 DEF IInv, Shape
<1>5. RecordOf(ops', scen, did[which][scen]) /\ Len(ops') = req
  <2>1. ops \in Seq(Recorded) /\ \A k \in 1..Len(ops) : Tells(ops[k], did[which][scen][k], scen, k)
    BY <1>1 DEF RecordOf
  <2>2. ops' \in Seq(Recorded) /\ Len(ops') = req
    BY <1>1, <1>2, <1>3, <2>1
  <2>3. \A k \in 1..Len(ops) : ops'[k] = ops[k]
    BY <1>2, <2>1
  <2>4. ops'[req] = value
    BY <1>1, <1>2, <1>3, <2>1
  <2>5. \A k \in 1..Len(ops') : k \in 1..Len(ops) \/ k = req
    BY <1>1, <1>3, <2>2
  <2> QED  BY <1>3, <2>1, <2>2, <2>3, <2>4, <2>5 DEF RecordOf
<1>6. Phase'
  BY <1>2 DEF Phase, Idle, Asking, AwaitsCode, AwaitsItems, Over
<1>7. Progress'
  <2>1. client' = "ask" => req' \in DOMAIN Scenarios[scen]
    BY <1>1, <1>2, <1>3, ScenarioFacts
  <2> QED  BY <1>1, <1>2, <1>3, <1>5, <2>1 DEF Progress, Busy
<1>8. Ahead'
  <2>1. \A k \in DOMAIN Scenarios[scen] : k >= req + 1 => did[which][scen][k] = "unasked"
    BY <1>1, <1>3, ScenarioFacts DEF IInv, Ahead
  <2> QED  BY <1>2, <2>1 DEF IInv, Ahead
<1> QED  BY <1>4, <1>6, <1>7, <1>8, FilesStay DEF IInv

\* An exception that the scenario catches is recorded, and tells of a request
\* that was not answered; another one ends the scenario.
LEMMA RaisingKeeps ==
    ASSUME IInv, client \in {"ask", "code", "items"},
           UNCHANGED <<golden, which, scen, did, exit, alive>>,
           asked' = 0, pipe' = << >>, Raises,
           did[which][scen][req] \notin Answered
    PROVE  IInv'
<1>1. CASE Kind = "guarded"
  <2>1. Records(ERROR)
    BY <1>1 DEF Raises
  <2>2. ERROR \in Recorded /\ ERROR \notin Answered
    BY DEF Recorded, Answered, ERROR
  <2>3. Tells(ERROR, did[which][scen][req], scen, req)
    BY <1>1, <2>2 DEF Tells, Failure, Kind, Script
  <2> QED  BY <2>1, <2>2, <2>3, RecordingKeeps
<1>2. CASE Kind # "guarded"
  <2>1. client' = "failed" /\ UNCHANGED <<ops, req>>
    BY <1>2 DEF Raises
  <2>2. Shape'
    BY <2>1 DEF IInv, Shape
  <2>3. Phase'
    BY <2>1 DEF Phase, Idle, Asking, AwaitsCode, AwaitsItems, Over
  <2>4. Progress'
    BY <2>1 DEF IInv, Progress, Busy
  <2>5. Ahead'
    BY <2>1 DEF IInv, Ahead
  <2> QED  BY <2>2, <2>3, <2>4, <2>5, FilesStay DEF IInv
<1> QED  BY <1>1, <1>2

LEMMA RaisingXuErrorKeeps ==
    ASSUME IInv, client \in {"ask", "code", "items"},
           UNCHANGED <<golden, which, scen, did, exit, alive>>,
           asked' = 0, pipe' = << >>, RaisesXuError,
           did[which][scen][req] \notin Answered
    PROVE  IInv'
<1>1. CASE Kind = "follow"
  <2>1. Records(NOSPECS)
    BY <1>1 DEF RaisesXuError
  <2>2. NOSPECS \in Recorded /\ NOSPECS \notin Answered
    BY DEF Recorded, Answered, NOSPECS
  <2>3. Tells(NOSPECS, did[which][scen][req], scen, req)
    BY <1>1, <2>2 DEF Tells, Failure, Kind, Script
  <2> QED  BY <2>1, <2>2, <2>3, RecordingKeeps
<1>2. CASE Kind # "follow"
  BY <1>2, RaisingKeeps DEF RaisesXuError
<1> QED  BY <1>1, <1>2

LEMMA StartsKeeps == IInv /\ Starts => IInv'
<1> SUFFICES ASSUME IInv, Starts PROVE IInv'
  OBVIOUS
<1>1. /\ which \in Backends /\ client = "start" /\ client' = "ask"
      /\ scen \in DOMAIN Scenarios /\ req = 1 /\ ops = << >>
  BY ScenarioFacts DEF Starts, IInv, Shape, Phase, Idle
<1>2. UNCHANGED <<golden, which, scen, req, ops, asked, pipe, did, exit>> /\ alive' = TRUE
  BY DEF Starts
<1>3. Shape'
  BY <1>1, <1>2 DEF IInv, Shape
<1>4. Phase'
  BY <1>1, <1>2 DEF IInv, Phase, Idle, Asking, AwaitsCode, AwaitsItems, Over
<1>5. Progress'
  <2>1. RecordOf(<< >>, scen, did[which][scen])
    BY <1>1, ScenarioFacts DEF RecordOf
  <2>2. 1 \in DOMAIN Scenarios[scen] /\ Len(<< >>) = 1 - 1
    BY <1>1, ScenarioFacts
  <2> QED  BY <1>1, <1>2, <2>1, <2>2 DEF Progress, Busy
<1>6. Ahead'
  BY <1>1, <1>2 DEF IInv, Ahead
<1> QED  BY <1>2, <1>3, <1>4, <1>5, <1>6, FilesStay DEF IInv

LEMMA AsksKeeps == IInv /\ Asks => IInv'
<1> SUFFICES ASSUME IInv, Asks PROVE IInv'
  OBVIOUS
<1>1. /\ client = "ask" /\ asked = 0 /\ pipe = << >>
      /\ UNCHANGED <<golden, which, scen, alive, pipe, did, exit>>
  BY DEF Asks, IInv, Phase, Asking
<1>2. which \in Backends /\ scen \in DOMAIN Scenarios /\ req \in DOMAIN Scenarios[scen]
  BY <1>1 DEF IInv, Progress, Busy
<1>3. req \in Nat /\ did[which][scen][req] = "unasked"
  BY <1>1, <1>2 DEF IInv, Shape, Ahead
<1>4. CASE alive
  <2>1. asked' = req /\ client' = "code" /\ UNCHANGED <<ops, req>>
    BY <1>4 DEF Asks
  <2>2. Shape'
    BY <1>1, <1>3, <2>1 DEF IInv, Shape
  <2>3. Phase'
    BY <1>1, <1>3, <1>4, <2>1 DEF Phase, Idle, Asking, AwaitsCode, AwaitsItems, Over
  <2>4. Progress'
    BY <1>1, <2>1 DEF IInv, Progress, Busy
  <2>5. Ahead'
    BY <1>1, <1>2, <1>3, <2>1, ScenarioFacts DEF IInv, Ahead
  <2> QED  BY <1>1, <2>2, <2>3, <2>4, <2>5, FilesStay DEF IInv
<1>5. CASE ~alive
  <2>1. Raises /\ asked' = 0 /\ pipe' = << >>
    BY <1>1, <1>5 DEF Asks
  <2> QED  BY <1>1, <1>3, <2>1, RaisingKeeps DEF Answered
<1> QED  BY <1>4, <1>5

\* What a process writes shows what it does.
LEMMA PipeShows ==
    ASSUME NEW k, NEW deed \in Answers, NEW said \in AnswerTo(k, deed)
    PROVE  \/ deed = "refused" /\ said = <<"?">>
           \/ deed = "dies" /\ said = << >>
           \/ deed = "dies" /\ said = <<Code(scen, k)>>
           \/ deed \in Answered /\ deed \in Recorded /\ said = <<Code(scen, k), deed>>
<1>1. deed \in {"same", "moved", "changed", "refused", "dies"}
  BY GoldenAssumption
<1>2. CASE deed = "refused"
  BY <1>2 DEF AnswerTo
<1>3. CASE deed = "dies"
  BY <1>3 DEF AnswerTo
<1>4. CASE deed \notin {"refused", "dies"}
  <2>1. said = <<Code(scen, k), deed>>
    BY <1>4 DEF AnswerTo
  <2> QED  BY <1>1, <1>4, <2>1 DEF Answered, Recorded
<1> QED  BY <1>2, <1>3, <1>4

LEMMA OneOrTwo ==
    \A x, y : /\ <<x>> # << >> /\ Head(<<x>>) = x /\ Tail(<<x>>) = << >>
              /\ <<x, y>> # << >> /\ Head(<<x, y>>) = x /\ Tail(<<x, y>>) = <<y>>
  OBVIOUS

LEMMA ShortInPipe ==
    /\ << >> \in Seq(Recorded \union {"FOLLOWLINK", "RETRIEVEV", "?"})
    /\ \A x \in Recorded : <<x>> \in Seq(Recorded \union {"FOLLOWLINK", "RETRIEVEV", "?"})
  OBVIOUS

LEMMA ReadsCodeKeeps == IInv /\ ReadsCode => IInv'
<1> SUFFICES ASSUME IInv, ReadsCode PROVE IInv'
  OBVIOUS
<1> DEFINE deed == did[which][scen][req]
<1>1. client = "code" /\ UNCHANGED <<golden, which, scen, alive, asked, did, exit>>
  BY DEF ReadsCode
<1>2. which \in Backends /\ scen \in DOMAIN Scenarios /\ req \in DOMAIN Scenarios[scen]
  BY <1>1 DEF IInv, Progress, Busy
<1>3. /\ asked = 0 /\ deed \in Answers /\ pipe \in AnswerTo(req, deed)
      /\ alive = (deed # "dies")
  BY <1>1 DEF IInv, Phase, AwaitsCode, ReadsCode, AtEndOfFile, EndOfFile
<1>4. \/ deed = "refused" /\ pipe = <<"?">>
      \/ deed = "dies" /\ pipe = << >>
      \/ deed = "dies" /\ pipe = <<Code(scen, req)>>
      \/ deed \in Answered /\ deed \in Recorded /\ pipe = <<Code(scen, req), deed>>
  BY <1>3, PipeShows
<1>5. Code(scen, req) \in {"FOLLOWLINK", "RETRIEVEV"}
  BY DEF Code
<1>6. CASE pipe # << >> /\ Head(pipe) = Code(scen, req) /\ pipe' = Tail(pipe)
           /\ client' = "items" /\ UNCHANGED <<ops, req>>
  <2>1. \/ deed = "dies" /\ pipe' = << >>
        \/ deed \in Answered /\ deed \in Recorded /\ pipe' = <<deed>>
    <3>1. Code(scen, req) # "?"
      BY <1>5
    <3>2. pipe # <<"?">>
      BY <1>6, <3>1, OneOrTwo
    <3> QED  BY <1>4, <1>6, <3>2, OneOrTwo, Zenon
  <2>2. Shape'
    <3>1. pipe' \in Seq(Recorded \union {"FOLLOWLINK", "RETRIEVEV", "?"})
      BY <2>1, ShortInPipe, Zenon
    <3> QED  BY <1>1, <1>6, <3>1 DEF IInv, Shape
  <2>3. Phase'
    <3>1. deed' = deed
      BY <1>1, <1>6
    <3>2. alive' = (deed # "dies") /\ asked' = 0
      BY <1>1, <1>3
    <3>3. AwaitsItems'
      BY <2>1, <3>1, <3>2 DEF AwaitsItems, Answered
    <3> QED  BY <1>6, <3>3 DEF Phase, Idle, Asking, AwaitsCode, Over
  <2>4. Progress'
    BY <1>1, <1>6 DEF IInv, Progress, Busy
  <2>5. Ahead'
    BY <1>1, <1>6 DEF IInv, Ahead
  <2> QED  BY <1>1, <2>2, <2>3, <2>4, <2>5, FilesStay DEF IInv
<1>7. CASE pipe # << >> /\ Head(pipe) # Code(scen, req) /\ pipe' = Tail(pipe) /\ RaisesXuError
  <2>1. deed = "refused" /\ pipe' = << >>
    BY <1>4, <1>7, OneOrTwo, Zenon
  <2> QED  BY <1>1, <1>3, <1>7, <2>1, RaisingXuErrorKeeps DEF Answered
<1>8. CASE AtEndOfFile /\ RaisesXuError /\ UNCHANGED pipe
  <2>1. deed = "dies" /\ pipe' = << >>
    BY <1>3, <1>8 DEF AtEndOfFile, EndOfFile
  <2> QED  BY <1>1, <1>3, <1>8, <2>1, RaisingXuErrorKeeps DEF Answered
<1> QED  BY <1>6, <1>7, <1>8 DEF ReadsCode

LEMMA ReadsItemsKeeps == IInv /\ ReadsItems => IInv'
<1> SUFFICES ASSUME IInv, ReadsItems PROVE IInv'
  OBVIOUS
<1> DEFINE deed == did[which][scen][req]
<1>1. client = "items" /\ UNCHANGED <<golden, which, scen, alive, asked, did, exit>>
  BY DEF ReadsItems
<1>2. /\ asked = 0
      /\ \/ deed \in Answered /\ pipe = <<deed>> /\ alive
         \/ deed = "dies" /\ pipe = << >> /\ ~alive
  BY <1>1 DEF IInv, Phase, AwaitsItems
<1>3. CASE pipe # << >> /\ pipe' = Tail(pipe) /\ Records(Head(pipe))
  <2>1. deed \in Answered /\ Head(pipe) = deed /\ pipe' = << >>
    BY <1>2, <1>3, OneOrTwo, Zenon
  <2>2. deed \in Recorded /\ Tells(deed, deed, scen, req)
    BY <2>1 DEF Tells, Recorded, Answered
  <2> QED  BY <1>1, <1>2, <1>3, <2>1, <2>2, RecordingKeeps
<1>4. CASE AtEndOfFile /\ Raises /\ UNCHANGED pipe
  <2>1. deed \notin Answered /\ pipe' = << >>
    BY <1>2, <1>4 DEF AtEndOfFile, EndOfFile, Answered
  <2> QED  BY <1>1, <1>2, <1>4, <2>1, RaisingKeeps
<1> QED  BY <1>3, <1>4 DEF ReadsItems

-----------------------------------------------------------------------------
(* The files. *)

LEMMA StopsKeeps == IInv /\ Stops => IInv'
<1> SUFFICES ASSUME IInv, Stops PROVE IInv'
  OBVIOUS
<1>1. /\ client \in {"stop", "failed"} /\ client' = "start" /\ ops' = << >> /\ req' = 1
      /\ alive' = FALSE /\ asked' = 0 /\ pipe' = << >> /\ scen' = scen + 1
      /\ UNCHANGED <<which, did, exit>>
  BY DEF Stops
<1>2. /\ which \in Backends /\ scen \in DOMAIN Scenarios
      /\ RecordOf(ops, scen, did[which][scen])
      /\ client = "stop" => Len(ops) = Len(Scenarios[scen])
  BY <1>1 DEF IInv, Progress, Busy
<1>3. Shape'
  <2>1. scen + 1 \in 1..(Len(Scenarios) + 1)
    BY <1>2, ScenarioFacts
  <2>2. pipe' \in Seq(Recorded \union {"FOLLOWLINK", "RETRIEVEV", "?"})
    BY <1>1, ShortInPipe, Zenon
  <2>3. which' \in Backends \union {"compare", "done"} /\ exit' \in {-1, 0, 1}
    BY <1>1, Zenon DEF IInv, Shape
  <2>4. req' \in Nat \ {0} /\ asked' \in Nat
    BY <1>1
  <2>5. alive' \in BOOLEAN /\ client' \in {"start", "ask", "code", "items", "stop", "failed"}
    BY <1>1, Zenon
  <2>6. scen' \in 1..(Len(Scenarios) + 1)
    BY <1>1, <2>1, Zenon
  <2> QED  BY <2>2, <2>3, <2>4, <2>5, <2>6, Zenon DEF Shape
<1>4. DidShape'
  BY <1>1 DEF IInv, DidShape
<1>5. Phase'
  BY <1>1 DEF Phase, Idle, Asking, AwaitsCode, AwaitsItems, Over
<1>6. Progress'
  BY <1>1 DEF Progress, Busy
<1>7. Ahead'
  <2>1. \A s \in DOMAIN Scenarios : s >= scen + 1 => s > scen
    BY <1>2, ScenarioFacts
  <2>2. \A s \in DOMAIN Scenarios : s > scen + 1 \/ s = scen + 1 => s > scen
    BY <1>2, ScenarioFacts
  <2> QED  BY <1>1, <2>2 DEF IInv, Ahead
<1>8. Files'
  <2>1. CASE client = "stop"
    <3>1. golden' = [golden EXCEPT ![which] = With(golden[which], scen, ops)]
      BY <2>1 DEF Stops
    <3>2. /\ DOMAIN golden' = Backends
          /\ golden'[which] = With(golden[which], scen, ops)
          /\ \A b \in Backends : b # which => golden'[b] = golden[b]
      BY <1>2, <3>1 DEF IInv, Files
    <3> SUFFICES ASSUME NEW b \in Backends, NEW s \in DOMAIN golden'[b]
                 PROVE  /\ s \in DOMAIN Scenarios
                        /\ RecordOf(golden'[b][s], s, did[b][s])
                        /\ Len(golden'[b][s]) = Len(Scenarios[s])
                        /\ b = which => s < scen + 1
                        /\ which = "reference" => b = "reference"
      BY <1>1, <3>2 DEF Files
    <3>3. CASE b = which /\ s = scen
      <4>1. golden'[b][s] = ops
        BY <3>2, <3>3 DEF With
      <4> QED  BY <1>2, <2>1, <3>3, <4>1, ScenarioFacts
    <3>4. CASE ~(b = which /\ s = scen)
      <4>1. s \in DOMAIN golden[b] /\ golden'[b][s] = golden[b][s]
        BY <3>2, <3>4 DEF With
      <4>2. b = which => s < scen + 1
        BY <1>2, <4>1, ScenarioFacts DEF IInv, Files
      <4> QED  BY <4>1, <4>2 DEF IInv, Files
    <3> QED  BY <3>3, <3>4
  <2>2. CASE client = "failed"
    <3>1. golden' = golden
      BY <2>2 DEF Stops
    <3>2. \A b \in Backends : \A s \in DOMAIN golden[b] :
             s \in DOMAIN Scenarios /\ (b = which => s < scen + 1)
      BY <1>2, ScenarioFacts DEF IInv, Files
    <3> QED  BY <1>1, <3>1, <3>2 DEF IInv, Files
  <2> QED  BY <1>1, <2>1, <2>2
<1>9. Reported'
  BY <1>1, <1>2 DEF IInv, Reported, Backends, NoFalseAlarm
<1> QED  BY <1>3, <1>4, <1>5, <1>6, <1>7, <1>8, <1>9 DEF IInv

LEMMA GeneratedKeeps == IInv /\ Generated => IInv'
<1> SUFFICES ASSUME IInv, Generated PROVE IInv'
  OBVIOUS
<1>1. /\ client = "start" /\ which \in Backends /\ scen > Len(Scenarios)
      /\ which' = IF which = "reference" THEN "actual" ELSE "compare"
      /\ scen' = 1
      /\ UNCHANGED <<golden, req, client, ops, alive, asked, pipe, did, exit>>
  BY DEF Generated
<1>2. Shape'
  BY <1>1, ScenarioFacts DEF IInv, Shape, Backends
<1>3. DidShape'
  BY <1>1 DEF IInv, DidShape
<1>4. Phase'
  BY <1>1 DEF IInv, Phase, Idle, Asking, AwaitsCode, AwaitsItems, Over
<1>5. Progress'
  BY <1>1 DEF Progress, Busy
<1>6. Ahead'
  BY <1>1 DEF IInv, Ahead, Backends
<1>7. Files'
  BY <1>1 DEF IInv, Files, Backends
<1>8. Reported'
  BY <1>1 DEF IInv, Reported, Backends, NoFalseAlarm
<1> QED  BY <1>2, <1>3, <1>4, <1>5, <1>6, <1>7, <1>8 DEF IInv

\* The worst class of a comparison is one of its classes.
LEMMA WorstIsThere ==
    ASSUME NEW classes \in SUBSET {"match", "encoding", "address", "content", "structural"},
           classes # {}
    PROVE  Worst(classes) \in classes
<1>1. \E c \in classes : \A d \in classes : severity[d] <= severity[c]
  <2>1. /\ severity["match"] = 0 /\ severity["encoding"] = 1 /\ severity["address"] = 2
        /\ severity["content"] = 3 /\ severity["structural"] = 4
    BY DEF severity
  <2>2. CASE "structural" \in classes
    BY <2>1, <2>2
  <2>3. CASE "content" \in classes /\ "structural" \notin classes
    BY <2>1, <2>3
  <2>4. CASE "address" \in classes /\ "content" \notin classes /\ "structural" \notin classes
    BY <2>1, <2>4
  <2>5. CASE /\ "encoding" \in classes /\ "address" \notin classes
             /\ "content" \notin classes /\ "structural" \notin classes
    BY <2>1, <2>5
  <2>6. CASE /\ "encoding" \notin classes /\ "address" \notin classes
             /\ "content" \notin classes /\ "structural" \notin classes
    <3>1. \A d \in classes : d = "match"
      BY <2>6
    <3>2. PICK c \in classes : TRUE
      OBVIOUS
    <3>3. \A d \in classes : severity[d] = 0
      BY <3>1, <2>1
    <3> QED  BY <3>2, <3>3
  <2> QED  BY <2>2, <2>3, <2>4, <2>5, <2>6
<1> QED  BY <1>1 DEF Worst

\* Records that tell of the same deeds, up to where things were put, are alike.
LEMMA AlikeIsNoWorse ==
    ASSUME NEW s, NEW k, NEW v \in Recorded, NEW w \in Recorded, NEW what, NEW deed,
           Tells(v, what, s, k), Tells(w, deed, s, k),
           what = deed \/ {what, deed} = {"same", "moved"}
    PROVE  Classify(v, w) \in {"match", "address"}
<1>1. CASE v \in Answered /\ w \in Answered
  BY <1>1 DEF Tells, Classify, Answered, NOSPECS, ERROR
<1>2. CASE v \notin Answered /\ w \notin Answered
  BY <1>2 DEF Tells, Classify
<1>3. CASE v \in Answered /\ w \notin Answered
  BY <1>3 DEF Tells, Answered
<1>4. CASE v \notin Answered /\ w \in Answered
  BY <1>4 DEF Tells, Answered
<1> QED  BY <1>1, <1>2, <1>3, <1>4

LEMMA ClassifyIsClass ==
    \A v, w : Classify(v, w) \in {"match", "encoding", "address", "content", "structural"}
  BY DEF Classify

LEMMA ComparesKeeps == IInv /\ Compares => IInv'
<1> SUFFICES ASSUME IInv, Compares PROVE IInv'
  OBVIOUS
<1>1. /\ which = "compare" /\ which' = "done"
      /\ UNCHANGED <<golden, scen, req, client, ops, alive, asked, pipe, did>>
  BY DEF Compares
<1>2. client = "start"
  BY <1>1 DEF IInv, Progress, Busy, Backends
<1>3. exit' \in {0, 1}
  BY DEF Compares
<1>4. Shape'
  BY <1>1, <1>3 DEF IInv, Shape
<1>5. DidShape'
  BY <1>1 DEF IInv, DidShape
<1>6. Phase'
  BY <1>1, <1>2 DEF IInv, Phase, Idle, Asking, AwaitsCode, AwaitsItems, Over
<1>7. Progress'
  BY <1>1, <1>2 DEF Progress, Busy
<1>8. Ahead'
  BY <1>1 DEF Ahead, Backends
<1>9. Files'
  BY <1>1 DEF IInv, Files, Backends
<1>10. Reported'
  <2> SUFFICES ASSUME exit' = 1
               PROVE  \E s \in DOMAIN Scenarios : \E k \in DOMAIN Scenarios[s] :
                         /\ did["reference"][s][k] # did["actual"][s][k]
                         /\ {did["reference"][s][k], did["actual"][s][k]} # {"same", "moved"}
    BY <1>1 DEF Reported, NoFalseAlarm
  <2>1. PICK s \in Compared :
           CompareScenario(golden["reference"][s], golden["actual"][s]) \in {"content", "structural"}
    BY DEF Compares
  <2> DEFINE ref == golden["reference"][s]
             act == golden["actual"][s]
             classes == {"match"} \union {Classify(ref[k], act[k]) : k \in DOMAIN ref}
  <2>2. /\ s \in DOMAIN Scenarios
        /\ RecordOf(ref, s, did["reference"][s]) /\ Len(ref) = Len(Scenarios[s])
        /\ RecordOf(act, s, did["actual"][s]) /\ Len(act) = Len(Scenarios[s])
    BY DEF IInv, Files, Compared, Backends
  <2>3. Worst(classes) \in {"content", "structural"}
    BY <2>1, <2>2 DEF CompareScenario
  <2>4. Worst(classes) \in classes
    <3>1. classes \in SUBSET {"match", "encoding", "address", "content", "structural"}
      BY ClassifyIsClass
    <3> QED  BY <3>1, WorstIsThere
  <2>5. PICK k \in DOMAIN ref : Classify(ref[k], act[k]) \in {"content", "structural"}
    BY <2>3, <2>4
  <2>6. k \in DOMAIN Scenarios[s] /\ k \in 1..Len(ref) /\ k \in 1..Len(act)
    BY <2>2, ScenarioFacts DEF RecordOf
  <2>7. /\ ref[k] \in Recorded /\ Tells(ref[k], did["reference"][s][k], s, k)
        /\ act[k] \in Recorded /\ Tells(act[k], did["actual"][s][k], s, k)
    BY <2>2, <2>6 DEF RecordOf
  <2>8. /\ did["reference"][s][k] # did["actual"][s][k]
        /\ {did["reference"][s][k], did["actual"][s][k]} # {"same", "moved"}
    BY <2>5, <2>7, AlikeIsNoWorse
  <2> QED  BY <2>2, <2>6, <2>8
<1> QED  BY <1>4, <1>5, <1>6, <1>7, <1>8, <1>9, <1>10 DEF IInv

-----------------------------------------------------------------------------
(* The theorems. *)

LEMMA StutterKeeps == IInv /\ UNCHANGED vars => IInv'
<1> SUFFICES ASSUME IInv, UNCHANGED vars PROVE IInv'
  OBVIOUS
<1>1. DidShape' /\ Files' /\ Reported'
  BY FilesStay DEF vars
<1>2. Shape'
  BY DEF IInv, Shape, vars
<1>3. Phase'
  BY DEF IInv, Phase, Idle, Asking, AwaitsCode, AwaitsItems, Over, AnswerTo, Code, vars
<1>4. Progress'
  BY DEF IInv, Progress, Busy, vars
<1>5. Ahead'
  BY DEF IInv, Ahead, vars
<1> QED  BY <1>1, <1>2, <1>3, <1>4, <1>5 DEF IInv

\* Every reachable state satisfies the invariant that says, for each state of
\* the session, what the process has made of the request and what is in the
\* pipe (XuConn.command, PipeStream.readchunk, generate_golden.main).
THEOREM Invariance == Spec => []IInv
<1>1. IInv /\ [Next]_vars => IInv'
  BY ServesKeeps, StartsKeeps, AsksKeeps, ReadsCodeKeeps, ReadsItemsKeeps, StopsKeeps,
     GeneratedKeeps, ComparesKeeps, StutterKeeps DEF Next, Session
<1> QED  BY InitIInv, <1>1, PTL DEF Spec

\* The state keeps its type: a file is a sequence of what a scenario can record.
THEOREM TypeCorrect == Spec => []TypeOK
<1>1. IInv => TypeOK
  BY DEF IInv, Shape, Files, RecordOf, TypeOK
<1> QED  BY <1>1, Invariance, PTL

\* Whatever was refused, cut short or swallowed before, the pipe is empty when
\* a request is made (XuConn.command, XuSession.follow_link).
THEOREM StaysInStep == Spec => []InStep
<1>1. IInv => InStep
  BY DEF IInv, Phase, Asking, InStep
<1> QED  BY <1>1, Invariance, PTL

\* A golden file holds, request by request, what its own back end answered to
\* that request (generate_golden.run_scenario).
THEOREM FilesAreTrue == Spec => []RecordsItsOwn
<1>1. IInv => RecordsItsOwn
  <2> SUFFICES ASSUME IInv, NEW b \in Backends, NEW s \in DOMAIN golden[b]
               PROVE  /\ Len(golden[b][s]) = Len(Scenarios[s])
                      /\ \A k \in DOMAIN Scenarios[s] :
                            IF golden[b][s][k] \in Answered THEN did[b][s][k] = golden[b][s][k]
                            ELSE did[b][s][k] \notin Answered
    BY DEF RecordsItsOwn
  <2>1. /\ s \in DOMAIN Scenarios /\ Len(golden[b][s]) = Len(Scenarios[s])
        /\ RecordOf(golden[b][s], s, did[b][s])
    BY DEF IInv, Files
  <2>2. DOMAIN Scenarios[s] = 1..Len(golden[b][s])
    BY <2>1, ScenarioFacts
  <2> QED  BY <2>1, <2>2 DEF RecordOf, Tells
<1> QED  BY <1>1, Invariance, PTL

\* compare_golden reports no difference that the back ends did not make.
THEOREM AlarmIsTrue == Spec => []NoFalseAlarm
<1>1. IInv => NoFalseAlarm
  BY DEF IInv, Reported
<1> QED  BY <1>1, Invariance, PTL
=============================================================================
