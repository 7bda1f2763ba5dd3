------------------------------- MODULE Pipeline --------------------------------
(* The weekly pipeline: load the legislators from LegiScan, then create or     *)
(* update every one that is due in the user service and record its DID. A run  *)
(* makes its calls in parallel and records nothing unless all succeeded. Or:   *)
(* store the PDF and the text of every bill of which nothing is stored. A run  *)
(* started by hand may overlap with the weekly one.                            *)
(*                                                                             *)
(* A value is what an update carries of a legislator: the party and the state. *)
(*                                                                             *)
(* Times are kept as what they decide: a row is due when it was never synced   *)
(* or was touched after its sync. NOW() is the start of a transaction, and a   *)
(* trigger touches a row in every update, that of the sync too.                *)
EXTENDS Naturals, FiniteSets

CONSTANTS Runs, Legislators, Values, Bills,
          MaxFaults,   \* requests, statements and tasks that fail
          MaxChanges   \* edits, at LegiScan or by an operator

ASSUME BoundsAssumption == MaxFaults \in Nat /\ MaxChanges \in Nat

None == "none"
ASSUME NoneAssumption == None \notin Runs \cup Values \cup Bills

VARIABLES
  source,     \* what LegiScan has of each legislator
  loaded, due,   \* the data service's row, and whether the next sync takes it
  recorded,   \* the DID in the row: the run whose call made it
  did,        \* the user service: the actor and legislator rows
  profile,    \* the record in the legislator's repo
  stored,     \* the files of each bill in S3
  stage,      \* per run
  call, want, \* per run and legislator: where the call is, and what it was read to be
  todo, bill, \* per run: the bills it has still to process, and the one it is at
  faults, changes

tables == <<loaded, due, recorded>>
service == <<did, profile>>
running == <<stage, call, want>>
texts == <<stored, todo, bill>>
pipelineVars == <<source, tables, service, running, texts, faults, changes>>

PipelineInit ==
  /\ source \in [Legislators -> Values]
  /\ loaded = [l \in Legislators |-> None] /\ due = [l \in Legislators |-> FALSE]
  /\ recorded = [l \in Legislators |-> None]
  /\ did = [l \in Legislators |-> None] /\ profile = [l \in Legislators |-> None]
  /\ stage = [r \in Runs |-> "idle"]
  /\ call = [r \in Runs |-> [l \in Legislators |-> None]]
  /\ want = [r \in Runs |-> [l \in Legislators |-> None]]
  /\ stored = [b \in Bills |-> {}]
  /\ todo = [r \in Runs |-> {}] /\ bill = [r \in Runs |-> None]
  /\ faults = 0 /\ changes = 0

Fault == faults < MaxFaults /\ faults' = faults + 1
NoFault == UNCHANGED faults

Change == changes < MaxChanges /\ changes' = changes + 1

SourceChanges ==
  /\ Change
  /\ \E l \in Legislators, v \in Values : source' = [source EXCEPT ![l] = v]
  /\ UNCHANGED <<texts, tables, service, running, faults>>

(* An operator edits the row through the data API.                             *)
EditRow ==
  /\ Change
  /\ \E l \in Legislators, v \in Values :
       /\ loaded[l] # None
       /\ loaded' = [loaded EXCEPT ![l] = v] /\ due' = [due EXCEPT ![l] = TRUE]
  /\ UNCHANGED <<texts, source, recorded, service, running, faults>>

Enter(r, to) == stage' = [stage EXCEPT ![r] = to]
Call(r, l, to) == call' = [call EXCEPT ![r][l] = to]

(* orchestrate: etl and then pds_processing, or text_processing.               *)
StartRun(r) ==
  /\ stage[r] = "idle" /\ (Enter(r, "etl") \/ Enter(r, "text"))
  /\ UNCHANGED <<source, tables, service, call, want, texts, faults, changes>>

(* _load_to_database: the upsert of every legislator touches every row.        *)
Upsert == loaded' = source /\ due' = [l \in Legislators |-> TRUE]

(* Mutant: the upsert does not count as a touch.                               *)
EtlUntouched(r) ==
  /\ stage[r] = "etl" /\ Enter(r, "sync")
  /\ loaded' = source /\ due' = [l \in Legislators |-> due[l] \/ loaded[l] = None]
  /\ UNCHANGED <<texts, source, recorded, service, call, want, faults, changes>>

(* run_etl. What fails in it is logged, and the sync goes on without it.       *)
Etl(r) ==
  /\ stage[r] = "etl" /\ Enter(r, "sync")
  /\ \/ NoFault /\ Upsert
     \/ Fault /\ UNCHANGED <<loaded, due>>
  /\ UNCHANGED <<texts, source, recorded, service, call, want, changes>>

(* The query of the sync, which begins its transaction.                        *)
Extract(r) ==
  /\ stage[r] = "sync"
  /\ \/ /\ NoFault /\ Enter(r, "calls")
        /\ call' = [call EXCEPT ![r] = [l \in Legislators |-> IF due[l] THEN "get" ELSE None]]
        /\ want' = [want EXCEPT ![r] =
                      [l \in Legislators |-> IF due[l] THEN loaded[l] ELSE None]]
     \/ Fault /\ Enter(r, "idle") /\ UNCHANGED <<call, want>>
  /\ UNCHANGED <<texts, source, tables, service, changes>>

-------------------------------------------------------------------------------
(* A request that fails in every attempt.                                      *)
Fails(r, l) == Fault /\ Call(r, l, "failed") /\ UNCHANGED service

(* create_or_update_legislator. An actor whose repo was not made is neither    *)
(* found nor missing.                                                          *)
Get(r, l) ==
  /\ call[r][l] = "get"
  /\ \/ /\ NoFault
        /\ Call(r, l, CASE profile[l] # None -> "put"
                        [] did[l] = None -> "post"
                        [] OTHER -> "failed")
        /\ UNCHANGED service
     \/ Fails(r, l)
  /\ UNCHANGED <<texts, source, tables, stage, want, changes>>

(* Mutant: nothing refuses a second actor for a legislator.                    *)
PostTwice(r, l) ==
  /\ call[r][l] = "post"
  /\ did' = [did EXCEPT ![l] = r] /\ Call(r, l, "init")
  /\ UNCHANGED <<texts, source, tables, profile, stage, want, faults, changes>>

(* create_legislator up to the transaction that inserts the two rows. That the *)
(* legislator has one is answered with a conflict, which is final, whether it  *)
(* was made by another run or by an attempt whose answer was lost.             *)
Post(r, l) ==
  /\ call[r][l] = "post"
  /\ \/ /\ did[l] = None /\ NoFault
        /\ did' = [did EXCEPT ![l] = r] /\ Call(r, l, "init")
        /\ UNCHANGED profile
     \/ did[l] # None /\ NoFault /\ Call(r, l, "failed") /\ UNCHANGED service
     \/ Fails(r, l)
  /\ UNCHANGED <<texts, source, tables, stage, want, changes>>

(* The repo with the profile, and the answer, which may be lost. The attempts  *)
(* that follow a failure meet the conflict.                                    *)
InitRepo(r, l) ==
  /\ call[r][l] = "init"
  /\ \/ /\ profile' = [profile EXCEPT ![l] = want[r][l]] /\ UNCHANGED did
        /\ \/ NoFault /\ Call(r, l, "ok")
           \/ Fault /\ Call(r, l, "failed")
     \/ Fails(r, l)
  /\ UNCHANGED <<texts, source, tables, stage, want, changes>>

(* update_legislator. The answer to a PUT has no body, and the client, which   *)
(* parses it, takes that for a failure; a lost one is asked for again.         *)
Put(r, l) ==
  /\ call[r][l] = "put"
  /\ \/ /\ profile' = [profile EXCEPT ![l] = want[r][l]] /\ UNCHANGED did
        /\ \/ NoFault /\ Call(r, l, "failed")
           \/ Fault /\ UNCHANGED call
     \/ Fails(r, l)
  /\ UNCHANGED <<texts, source, tables, stage, want, changes>>

NoCalls(r) ==
  /\ call' = [call EXCEPT ![r] = [l \in Legislators |-> None]]
  /\ want' = [want EXCEPT ![r] = [l \in Legislators |-> None]]

(* Mutant: the calls of a run that has ended are still taken for its own.      *)
EndedOnly(r) == Enter(r, "idle") /\ UNCHANGED <<call, want>>

Ended(r) == Enter(r, "idle") /\ NoCalls(r)

Taken(r) == {l \in Legislators : call[r][l] # None}

(* Every call is waited for; whether all were answered.                        *)
AllBack(r) == \A l \in Taken(r) : call[r][l] \in {"ok", "failed"}
AllOk(r) == \A l \in Taken(r) : call[r][l] = "ok"

(* _update_database_with_pds_data, when every call was answered, in the        *)
(* transaction that began with the query: synced and touched are its start.    *)
Record(r) ==
  /\ stage[r] = "calls" /\ AllOk(r)
  /\ \/ /\ NoFault
        /\ recorded' = [l \in Legislators |-> IF l \in Taken(r) THEN r ELSE recorded[l]]
        /\ due' = [l \in Legislators |-> due[l] /\ l \notin Taken(r)]
     \/ Fault /\ UNCHANGED <<recorded, due>>
  /\ Ended(r)
  /\ UNCHANGED <<texts, source, loaded, service, changes>>

(* One call that failed fails the run, whatever the others returned.           *)
GiveUp(r) ==
  /\ stage[r] = "calls" /\ AllBack(r) /\ ~AllOk(r)
  /\ Ended(r)
  /\ UNCHANGED <<texts, source, tables, service, faults, changes>>

-------------------------------------------------------------------------------
Kinds == {"pdf", "json", "txt"}
Save(b, kind) == stored' = [stored EXCEPT ![b] = @ \cup {kind}]
NotText == UNCHANGED <<source, tables, service, call, want, changes>>

(* A bill counts as stored when any file has its hash for a stem.              *)
ListBills(r) ==
  /\ stage[r] = "text"
  /\ \/ /\ NoFault /\ Enter(r, "bills")
        /\ todo' = [todo EXCEPT ![r] = {b \in Bills : stored[b] = {}}]
     \/ Fault /\ Enter(r, "idle") /\ UNCHANGED todo
  /\ UNCHANGED <<stored, bill>> /\ NotText

(* A failure, or the alarm after a minute, ends the bill and not the run.      *)
Skip(r) == Fault /\ Enter(r, "bills") /\ bill' = [bill EXCEPT ![r] = None] /\ UNCHANGED stored

(* Mutant: the text is stored before the PDF.                                  *)
TextFirst(r) ==
  /\ stage[r] = "bills"
  /\ \E b \in todo[r] :
       /\ todo' = [todo EXCEPT ![r] = @ \ {b}]
       /\ \/ NoFault /\ Save(b, "json") /\ Enter(r, "json") /\ bill' = [bill EXCEPT ![r] = b]
          \/ Skip(r)
  /\ NotText

Download(r) ==
  /\ stage[r] = "bills"
  /\ \E b \in todo[r] :
       /\ todo' = [todo EXCEPT ![r] = @ \ {b}]
       /\ \/ NoFault /\ Save(b, "pdf") /\ Enter(r, "json") /\ bill' = [bill EXCEPT ![r] = b]
          \/ Skip(r)
  /\ NotText

(* parse and save_text_results.                                                *)
SaveJson(r) ==
  /\ stage[r] = "json"
  /\ \/ NoFault /\ Save(bill[r], "json") /\ Enter(r, "txt") /\ UNCHANGED bill
     \/ Skip(r)
  /\ UNCHANGED todo /\ NotText

SavePlain(r) ==
  /\ stage[r] = "txt"
  /\ \/ /\ NoFault /\ Save(bill[r], "txt") /\ Enter(r, "bills")
        /\ bill' = [bill EXCEPT ![r] = None]
     \/ Skip(r)
  /\ UNCHANGED todo /\ NotText

TextDone(r) ==
  /\ stage[r] = "bills" /\ todo[r] = {} /\ Enter(r, "idle")
  /\ UNCHANGED <<texts, faults>> /\ NotText

-------------------------------------------------------------------------------
(* The task is stopped; what it asked for the user service may still do.       *)
Crash(r) ==
  /\ stage[r] # "idle" /\ Fault /\ Ended(r)
  /\ \E done \in SUBSET {l \in Legislators : call[r][l] = "init"} :
       profile' = [l \in Legislators |-> IF l \in done THEN want[r][l] ELSE profile[l]]
  /\ todo' = [todo EXCEPT ![r] = {}] /\ bill' = [bill EXCEPT ![r] = None]
  /\ UNCHANGED <<stored, source, tables, did, changes>>

Request(r, l) == Get(r, l) \/ Post(r, l) \/ InitRepo(r, l) \/ Put(r, l)
Stage(r) ==
  \/ Etl(r) \/ Extract(r) \/ Record(r) \/ GiveUp(r)
  \/ ListBills(r) \/ Download(r) \/ SaveJson(r) \/ SavePlain(r) \/ TextDone(r)

PipelineNext ==
  \/ SourceChanges \/ EditRow
  \/ \E r \in Runs :
       StartRun(r) \/ Stage(r) \/ Crash(r) \/ \E l \in Legislators : Request(r, l)

PipelineSpec == PipelineInit /\ [][PipelineNext]_pipelineVars

(* The legislators' stages are started every week, and every request and       *)
(* statement of a run ends: each has a timeout.                                *)
Fairness ==
  \A r \in Runs :
    /\ SF_pipelineVars(StartRun(r) /\ Enter(r, "etl"))
    /\ WF_pipelineVars(Stage(r)) /\ \A l \in Legislators : WF_pipelineVars(Request(r, l))

LiveSpec == PipelineSpec /\ Fairness
-------------------------------------------------------------------------------
(* Every variable has its type, and a run that makes no calls has none out.    *)
PipelineTypeOK ==
  /\ source \in [Legislators -> Values]
  /\ loaded \in [Legislators -> Values \cup {None}] /\ due \in [Legislators -> BOOLEAN]
  /\ recorded \in [Legislators -> Runs \cup {None}]
  /\ did \in [Legislators -> Runs \cup {None}]
  /\ profile \in [Legislators -> Values \cup {None}]
  /\ stage \in [Runs -> {"idle", "etl", "sync", "calls", "text", "bills", "json", "txt"}]
  /\ call \in [Runs -> [Legislators ->
                 {None, "get", "post", "init", "put", "ok", "failed"}]]
  /\ want \in [Runs -> [Legislators -> Values \cup {None}]]
  /\ \A r \in Runs : /\ stage[r] # "calls" => Taken(r) = {}
                     /\ \A l \in Legislators : want[r][l] = None <=> l \notin Taken(r)
  /\ stored \in [Bills -> SUBSET Kinds] /\ todo \in [Runs -> SUBSET Bills]
  /\ bill \in [Runs -> Bills \cup {None}]
  /\ \A r \in Runs : IF stage[r] \in {"json", "txt"} THEN bill[r] \in Bills ELSE bill[r] = None
  /\ faults \in 0..MaxFaults /\ changes \in 0..MaxChanges

(* Whatever fails, is lost, is sent again or overlaps: the DID that a row has  *)
(* is the one of the legislator's actor in the user service, whose repo has    *)
(* its profile.                                                                *)
RecordedIsTheirs ==
  \A l \in Legislators :
    recorded[l] # None => recorded[l] = did[l] /\ profile[l] # None

(* When LegiScan and the operators rest, every profile comes to be what        *)
(* LegiScan has, and stays it, even if it was edited while a sync that marks   *)
(* the row as synced was under way; but not where the repo was never made.     *)
ProfilesConverge ==
  \A l \in Legislators :
    <>[](profile[l] = source[l] \/ (did[l] # None /\ profile[l] = None))

(* If the text stage is run again and again, the PDF of every bill comes to be *)
(* stored, though a bill that failed is left to the next run and runs that     *)
(* overlap may process it twice; but not its text: a bill that failed after    *)
(* its PDF counts as stored.                                                   *)
PdfsArrive ==
  (\E r \in Runs : []<>(stage[r] = "text")) => \A b \in Bills : <>("pdf" \in stored[b])
===============================================================================
