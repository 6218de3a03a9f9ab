--------------------------- MODULE MC_LogParsing ---------------------------
(***************************************************************************)
(* From the bytes of the logs to the groups on the screen: the scanners,   *)
(* the parser of plans, the parser of one file and the parallel parse of   *)
(* several.  Each is given the outcomes of the one below it as inputs, so  *)
(* each is explored with the others idle.                                  *)
(***************************************************************************)
EXTENDS ParallelParse, LogParser, SimdScan, PlanParser

(* Three files of two, one and one plans.  Plans tie within a group across *)
(* files or the first, or a later one, is slower; two texts have the same  *)
(* fingerprint, and the last plan is also tried in another database.       *)
MCFingerprintOf == [t \in {"t1", "t2", "t3"} |-> IF t = "t3" THEN "b" ELSE "a"]

MCPlan(text, db, ts, d) ==
  [query_text |-> text, database |-> db, timestamp |-> ts, duration_ms |-> d]

MCContent(d, last) ==
  <<<<MCPlan("t1", NoDatabase, 2, d[1]), MCPlan("t3", NoDatabase, 1, 1)>>,
    <<MCPlan("t2", NoDatabase, 3, d[2])>>,
    <<MCPlan("t1", last, 4, d[3])>>>>

MCContents == {MCContent(<<1, 1, 1>>, NoDatabase), MCContent(<<1, 2, 1>>, "app"),
               MCContent(<<2, 1, 2>>, NoDatabase)}

MCShape == <<"d", ":", "d">>

ParsingIdle == Init /\ content = MCContent(<<1, 1, 1>>, NoDatabase)
FileIdle ==
  /\ log = <<"error">> /\ file = <<>> /\ pos = 0 /\ state = "None" /\ builder = NoBuilder
  /\ entry_bytes = 0 /\ current_database = <<>> /\ max_plans = 0 /\ sink = <<>>
  /\ truncated = FALSE /\ done = FALSE /\ discarded = {}
ScanIdle == line = <<>> /\ edits = MaxEdits
PlanIdle == plan = root :> Planned(Named(<<"sort">>), "") /\ steps = MaxSteps

mcInit ==
  \/ Init /\ FileIdle /\ ScanIdle /\ PlanIdle
  \/ ParsingIdle /\ ParserInit /\ ScanIdle /\ PlanIdle
  \/ ParsingIdle /\ FileIdle /\ ScanInit /\ PlanIdle
  \/ ParsingIdle /\ FileIdle /\ ScanIdle /\ PlanInit

mcNext ==
  \/ FileIdle /\ ScanIdle /\ PlanIdle /\ Next /\ UNCHANGED <<parserVars, scanVars, planVars>>
  \/ ~FileIdle /\ ParserNext /\ UNCHANGED <<vars, scanVars, planVars>>
  \/ ScanNext /\ UNCHANGED <<vars, parserVars, planVars>>
  \/ PlanNext /\ UNCHANGED <<vars, parserVars, scanVars>>

mcSpec == mcInit /\ [][mcNext]_<<vars, parserVars, scanVars, planVars>>

(* The fairness of the threads and the screen: a behaviour in which        *)
(* another component moves cannot satisfy it.                              *)
mcFairSpec == mcSpec /\ Fairness
=============================================================================
