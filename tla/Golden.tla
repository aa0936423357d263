------------------------------- MODULE Golden -------------------------------
(***************************************************************************)
(* Regression testing with golden files (generate_golden.py,               *)
(* compare_golden.py).  The scenarios are run on the reference back end    *)
(* and on the actual one, each scenario on a process of its own, to which  *)
(* a session talks through a pair of pipes (XuSession, XuConn, PipeStream  *)
(* in client.py).  What a scenario records becomes its golden file.  Then  *)
(* the two directories of files are compared.                              *)
(*                                                                         *)
(* An answer is a code, which says what was asked, and the items answered. *)
(* A process may refuse a request, or die while it answers.  What it does  *)
(* to a request is settled when it does it, and kept in did.               *)
(***************************************************************************)
EXTENDS Integers, Sequences

CONSTANTS
    Scenarios,      \* the sequence of scenarios: each the sequence of its requests
    Answers         \* what the actual back end may do otherwise than the reference

ASSUME GoldenAssumption ==
    /\ Scenarios \in Seq(Seq({"plain", "guarded", "follow"}) \ {<< >>})
    /\ Answers \subseteq {"same", "moved", "changed", "refused", "dies"}

VARIABLES
    golden,     \* the two directories: of each scenario with a file, what it recorded
    which,      \* the back end that is being run, or "compare", or "done"
    scen,       \* the scenario
    req,        \* its request
    client,     \* what the session is doing
    ops,        \* what the scenario has recorded
    alive,      \* whether the process is there
    asked,      \* the request that it is to answer, or 0
    pipe,       \* what it has written and nobody has read
    did,        \* history: what each back end did to each request
    exit        \* the exit code of compare_golden

vars == <<golden, which, scen, req, client, ops, alive, asked, pipe, did, exit>>

Backends == {"reference", "actual"}

\* What the scenario records of a request: the items of an answer, the empty
\* specset of a link that could not be followed, or an exception it caught.
NOSPECS == "nospecs"
ERROR == "error"
Recorded == {"same", "moved", "changed", NOSPECS, ERROR}

Script == Scenarios[scen]
Kind == Script[req]

\* The number of the operation: requests of the same kind have the same.
Code(s, k) == IF Scenarios[s][k] = "follow" THEN "FOLLOWLINK" ELSE "RETRIEVEV"

TypeOK ==
    /\ \A b \in Backends : /\ DOMAIN golden[b] \subseteq DOMAIN Scenarios
                           /\ \A s \in DOMAIN golden[b] : golden[b][s] \in Seq(Recorded)
    /\ which \in Backends \union {"compare", "done"}
    /\ scen \in 1..(Len(Scenarios) + 1)
    /\ client \in {"start", "ask", "code", "items", "stop", "failed"}
    /\ alive \in BOOLEAN /\ exit \in {-1, 0, 1}

Init ==
    /\ golden = [b \in Backends |-> << >>]
    /\ which = "reference" /\ scen = 1 /\ req = 1
    /\ client = "start" /\ ops = << >>
    /\ alive = FALSE /\ asked = 0 /\ pipe = << >>
    /\ did = [b \in Backends |-> [s \in DOMAIN Scenarios |-> [k \in DOMAIN Scenarios[s] |-> "unasked"]]]
    /\ exit = -1

-----------------------------------------------------------------------------
(* The back end. *)

\* Slip: it answers before it knows that it will refuse.
AnswerToEarly(k, what) ==
    CASE what = "refused" -> {<<Code(scen, k), "?">>, <<Code(scen, k), "same", "?">>}
      [] what = "dies" -> {<< >>, <<Code(scen, k)>>}
      [] OTHER -> {<<Code(scen, k), what>>}

\* The answer to request k, of which a process that dies writes a part.
AnswerTo(k, what) ==
    CASE what = "refused" -> {<<"?">>}
      [] what = "dies" -> {<< >>, <<Code(scen, k)>>}
      [] OTHER -> {<<Code(scen, k), what>>}

\* The reference back end answers all requests but those it refuses or dies of.
MayDo == IF which = "reference" THEN Answers \ {"moved", "changed"} ELSE Answers

Serves ==
    /\ alive /\ asked # 0
    /\ \E what \in MayDo :
          /\ \E answer \in AnswerTo(asked, what) : pipe' = pipe \o answer
          /\ did' = [did EXCEPT ![which][scen][asked] = what]
          /\ alive' = (what # "dies")
    /\ asked' = 0
    /\ UNCHANGED <<golden, which, scen, req, client, ops, exit>>

-----------------------------------------------------------------------------
(* The session. *)

\* BackendProcess.start: the handshake and the account are through.
Starts ==
    /\ which \in Backends /\ client = "start" /\ scen <= Len(Scenarios)
    /\ alive' = TRUE /\ client' = "ask"
    /\ UNCHANGED <<golden, which, scen, req, ops, asked, pipe, did, exit>>

Records(value) ==
    /\ ops' = Append(ops, value)
    /\ req' = req + 1
    /\ client' = IF req = Len(Script) THEN "stop" ELSE "ask"

\* An exception goes through to run_scenario unless the scenario expects one.
Raises ==
    IF Kind = "guarded" THEN Records(ERROR)
    ELSE client' = "failed" /\ UNCHANGED <<ops, req>>

\* follow_link takes an XuError of its command for a link without that end.
RaisesXuError == IF Kind = "follow" THEN Records(NOSPECS) ELSE Raises

\* Number_write: to a process that is gone it raises an OSError.
Asks ==
    /\ client = "ask"
    /\ IF alive THEN asked' = req /\ client' = "code" /\ UNCHANGED <<ops, req>>
       ELSE Raises /\ UNCHANGED asked
    /\ UNCHANGED <<golden, which, scen, alive, pipe, did, exit>>

EndOfFile == pipe = << >> /\ ~alive

\* Slip: at the end of the file the loop goes on.
AtEndOfFileNever == FALSE

\* readchunk: an empty read.
AtEndOfFile == EndOfFile

\* XuConn.command: the code of the request, or else an XuError.
ReadsCode ==
    /\ client = "code"
    /\ \/ /\ pipe # << >> /\ Head(pipe) = Code(scen, req)
          /\ pipe' = Tail(pipe)
          /\ client' = "items"
          /\ UNCHANGED <<ops, req>>
       \/ /\ pipe # << >> /\ Head(pipe) # Code(scen, req)
          /\ pipe' = Tail(pipe)
          /\ RaisesXuError
       \/ /\ AtEndOfFile
          /\ RaisesXuError
          /\ UNCHANGED pipe
    /\ UNCHANGED <<golden, which, scen, alive, asked, did, exit>>

ReadsItems ==
    /\ client = "items"
    /\ \/ /\ pipe # << >>
          /\ pipe' = Tail(pipe)
          /\ Records(Head(pipe))
       \/ /\ AtEndOfFile
          /\ Raises
          /\ UNCHANGED pipe
    /\ UNCHANGED <<golden, which, scen, alive, asked, did, exit>>

-----------------------------------------------------------------------------
(* generate_golden. *)

\* f with a value for x.
With(f, x, value) == [y \in DOMAIN f \union {x} |-> IF y = x THEN value ELSE f[y]]

\* BackendProcess.stop, whose own exceptions are dropped, and the end of the
\* process.  A scenario that raised an exception writes no file.
Stops ==
    /\ client \in {"stop", "failed"}
    /\ golden' = IF client = "stop" THEN [golden EXCEPT ![which] = With(@, scen, ops)] ELSE golden
    /\ alive' = FALSE /\ asked' = 0 /\ pipe' = << >>
    /\ client' = "start" /\ ops' = << >> /\ req' = 1
    /\ scen' = scen + 1
    /\ UNCHANGED <<which, did, exit>>

\* generate_golden is run once for each back end.
Generated ==
    /\ client = "start" /\ which \in Backends /\ scen > Len(Scenarios)
    /\ which' = IF which = "reference" THEN "actual" ELSE "compare"
    /\ scen' = 1
    /\ UNCHANGED <<golden, req, client, ops, alive, asked, pipe, did, exit>>

-----------------------------------------------------------------------------
(* compare_golden. *)

severity == [match |-> 0, encoding |-> 1, address |-> 2, content |-> 3, structural |-> 4]

\* Slip: one of two different addresses is no worse than any other difference.
ClassifyAnyContent(ref, act) == IF ref = act THEN "match" ELSE "content"

\* An operation that failed is recorded with other fields than one that went
\* through, and specsets of different lengths differ in structure.
Classify(ref, act) ==
    CASE ref = act -> "match"
      [] {ref, act} \intersect {NOSPECS, ERROR} # {} -> "structural"
      [] {ref, act} = {"same", "moved"} -> "address"
      [] OTHER -> "content"

Worst(classes) == CHOOSE c \in classes : \A d \in classes : severity[d] <= severity[c]

CompareScenario(ref, act) ==
    IF Len(ref) # Len(act) THEN "structural"
    ELSE Worst({"match"} \union {Classify(ref[k], act[k]) : k \in DOMAIN ref})

\* Scenarios in one directory only are counted, and that is all.
Compared == DOMAIN golden["reference"] \intersect DOMAIN golden["actual"]

Compares ==
    /\ which = "compare"
    /\ exit' = IF \E s \in Compared : CompareScenario(golden["reference"][s], golden["actual"][s])
                                         \in {"content", "structural"}
               THEN 1 ELSE 0
    /\ which' = "done"
    /\ UNCHANGED <<golden, scen, req, client, ops, alive, asked, pipe, did>>

Session == Starts \/ Asks \/ ReadsCode \/ ReadsItems \/ Stops \/ Generated \/ Compares

Next == Serves \/ Session

Spec == Init /\ [][Next]_vars

\* The process and the program that drives it both run on, whatever the
\* process does with a request.
FairSpec == Spec /\ WF_vars(Serves) /\ WF_vars(Session)

-----------------------------------------------------------------------------
(* Properties. *)

Answered == {"same", "moved", "changed"}

\* When a request is made nothing of an earlier answer is left in the pipe,
\* though the earlier request may have been refused, half answered, or its
\* failure swallowed by follow_link or by the scenario: otherwise every answer
\* from then on would be taken for that of another request, and where two
\* requests in succession are the same operation no code would tell.
InStep == client = "ask" => pipe = << >> \/ ~alive

\* What stands in a golden file at the place of a request is what the back end
\* answered to that very request, and a failure stands there only if it refused
\* or died.
RecordsItsOwn ==
    \A b \in Backends : \A s \in DOMAIN golden[b] :
            /\ Len(golden[b][s]) = Len(Scenarios[s])
            /\ \A k \in DOMAIN Scenarios[s] :
                  IF golden[b][s][k] \in Answered THEN did[b][s][k] = golden[b][s][k]
                  ELSE did[b][s][k] \notin Answered

\* Two back ends that do the same to every request up to where they put things
\* are told alike, whatever they refuse and wherever they die.
NoFalseAlarm ==
    exit = 1 => \E s \in DOMAIN Scenarios : \E k \in DOMAIN Scenarios[s] :
        LET ref == did["reference"][s][k]  act == did["actual"][s][k]
        IN  ref # act /\ {ref, act} # {"same", "moved"}

\* Every scenario is run and the directories are compared, however often a
\* process dies in the middle of an answer.
Finishes == <>(which = "done")
=============================================================================
