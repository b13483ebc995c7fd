--------------------------- MODULE EvaluationAudit ---------------------------
(***************************************************************************)
(* The audit of an evaluation (tools/run_pagila_evaluation.py with         *)
(* evaluation/report.py and evaluation/status.py).  Four commands work on  *)
(* three files: freeze-baseline writes the baseline, evaluate writes a     *)
(* report, review-case decides on one case of the report, verify-case      *)
(* marks one case of the case file "verified" and refreshes the report.    *)
(* A command is a process that reads and replaces whole files, one action  *)
(* each; a replaced file is either the old or the new one.  A process may  *)
(* die between any two actions.                                            *)
(*                                                                         *)
(* The code and its dependencies are a version; the digests of a baseline, *)
(* a report and an evidence are the version and the run they stand for.    *)
(* The texts of the cases do not change: what the status-neutral digest    *)
(* guards is not modelled.                                                 *)
(***************************************************************************)
EXTENDS Integers, FiniteSets

CONSTANTS Ids,           \* the cases
          Processes,     \* commands that may run at the same time
          MaxRuns,       \* bound: evaluations
          MaxVersions,   \* bound: versions of the code
          None

AuditAssumption ==
    MaxRuns \in Nat /\ MaxVersions \in Nat \ {0} /\ IsFiniteSet(Ids)

VARIABLES version,       \* of the installed code
          baseline,      \* the frozen version in the baseline file, or None
          verified,      \* the cases marked in the case file
          report,        \* the report file, or None
          runs,          \* evaluations so far
          process,       \* process -> what its command is doing
          approvals      \* history: <<case, run>> someone approved

files == <<baseline, verified, report>>
vars == <<version, files, runs, process, approvals>>

Idle == [pc |-> "idle", case |-> None, approve |-> FALSE, report |-> None,
         verified |-> {}]

Report(run, passed, audit, counted) ==
    [run |-> run, baseline |-> baseline, passed |-> passed, audit |-> audit,
     counted |-> counted]

Init ==
    /\ version = 1 /\ baseline = None /\ verified = {} /\ report = None
    /\ runs = 0
    /\ process = [p \in Processes |-> Idle]
    /\ approvals = {}

At(p, pc) == process[p].pc = pc
Becomes(p, s) == process' = [process EXCEPT ![p] = s]
Goes(p, pc) == Becomes(p, [process[p] EXCEPT !.pc = pc])

(* The developer changes the code, not while a command runs. *)
EditCode ==
    /\ version < MaxVersions /\ \A p \in Processes : At(p, "idle")
    /\ version' = version + 1
    /\ UNCHANGED <<files, runs, process, approvals>>

(* The process dies, or its next step raises. *)
Dies(p) ==
    /\ ~At(p, "idle")
    /\ Becomes(p, Idle)
    /\ UNCHANGED <<version, files, runs, approvals>>

(* A finished command leaves. *)
Leaves(p) ==
    /\ At(p, "ended")
    /\ Becomes(p, Idle)
    /\ UNCHANGED <<version, files, runs, approvals>>

-----------------------------------------------------------------------------
(* freeze-baseline and evaluate.                                           *)

(* verify_static_evaluation_freeze: the baseline is of the installed code. *)
Frozen == baseline = version

(* The cases given have to be all draft: the case file before its first    *)
(* mark, or a copy kept from then.                                         *)
AllDraft(copy) == copy \/ verified = {}

FreezeBaseline(p, copy) ==
    /\ At(p, "idle") /\ AllDraft(copy)
    /\ baseline' = version
    /\ Goes(p, "ended")
    /\ UNCHANGED <<version, verified, report, runs, approvals>>

(* mutant: the decisions of the report before are kept *)
FaultyEvaluate(p, copy) ==
    /\ At(p, "idle") /\ AllDraft(copy) /\ Frozen /\ runs < MaxRuns
    /\ runs' = runs + 1
    /\ \E passed \in SUBSET Ids :
          Becomes(p, [process[p] EXCEPT
              !.pc = "evaluated",
              !.report = Report(runs + 1, passed,
                                IF report # None THEN report.audit
                                ELSE [c \in Ids |-> "pending"], {})])
    /\ UNCHANGED <<version, files, approvals>>

(* The frozen code is evaluated; every case is audited anew. *)
Evaluate(p, copy) ==
    /\ At(p, "idle") /\ AllDraft(copy) /\ Frozen /\ runs < MaxRuns
    /\ runs' = runs + 1
    /\ \E passed \in SUBSET Ids :
          Becomes(p, [process[p] EXCEPT
              !.pc = "evaluated",
              !.report = Report(runs + 1, passed, [c \in Ids |-> "pending"],
                                {})])
    /\ UNCHANGED <<version, files, approvals>>

WriteEvaluation(p) ==
    /\ At(p, "evaluated")
    /\ report' = process[p].report
    /\ Goes(p, "ended")
    /\ UNCHANGED <<version, baseline, verified, runs, approvals>>

-----------------------------------------------------------------------------
(* review-case and verify-case start with the current baseline, which has  *)
(* to be the one of the code.                                              *)

Begins(p, pc) ==
    /\ At(p, "idle") /\ Frozen
    /\ \E c \in Ids, approve \in BOOLEAN :
          /\ pc = "verify" => ~approve
          /\ Becomes(p, [Idle EXCEPT !.pc = pc, !.case = c,
                                     !.approve = approve])
    /\ UNCHANGED <<version, files, runs, approvals>>

(* mutant: the report of another baseline is taken *)
FaultyCurrentReport == report # None

(* load_report and require_report_baseline. *)
CurrentReport == report # None /\ report.baseline = version

Review(p) ==
    /\ At(p, "review") /\ CurrentReport
    /\ process[p].approve => process[p].case \in report.passed
    /\ Becomes(p, [process[p] EXCEPT
           !.pc = "reviewed",
           !.report = [report EXCEPT !.audit[process[p].case] =
               IF process[p].approve THEN "approved" ELSE "rejected"]])
    /\ UNCHANGED <<version, files, runs, approvals>>

(* mutant: the decisions on the other cases are reset *)
FaultyWriteReview(p) ==
    /\ At(p, "reviewed")
    /\ report' = [process[p].report EXCEPT !.audit =
                     [c \in Ids |-> IF c = process[p].case THEN @[c]
                                    ELSE "pending"]]
    /\ approvals' = approvals
    /\ Goes(p, "ended")
    /\ UNCHANGED <<version, baseline, verified, runs>>

WriteReview(p) ==
    /\ At(p, "reviewed")
    /\ report' = process[p].report
    /\ approvals' = IF process[p].approve
                    THEN approvals \union
                            {<<process[p].case, process[p].report.run>>}
                    ELSE approvals
    /\ Goes(p, "ended")
    /\ UNCHANGED <<version, baseline, verified, runs>>

-----------------------------------------------------------------------------
(* verify-case.                                                            *)

Evidence(r, cases) ==
    \A c \in cases : c \in r.passed /\ r.audit[c] = "approved"

VerifyLoad(p) ==
    /\ At(p, "verify") /\ CurrentReport
    /\ Becomes(p, [process[p] EXCEPT !.pc = "require", !.report = report])
    /\ UNCHANGED <<version, files, runs, approvals>>

(* _require_verified_evidence: of this case and of all verified ones. *)
Require(p) ==
    /\ At(p, "require")
    /\ Evidence(process[p].report, verified \union {process[p].case})
    /\ Goes(p, "mark")
    /\ UNCHANGED <<version, files, runs, approvals>>

(* mark_case_verified looks at the report again ... *)
Mark(p) ==
    /\ At(p, "mark") /\ CurrentReport
    /\ Evidence(report, {process[p].case})
    /\ Goes(p, "lines")
    /\ UNCHANGED <<version, files, runs, approvals>>

(* ... reads the lines of the case file; a verified case stays as it is ... *)
ReadLines(p) ==
    /\ At(p, "lines")
    /\ Becomes(p, [process[p] EXCEPT
           !.pc = IF process[p].case \in verified THEN "refresh"
                  ELSE "write_lines",
           !.verified = verified])
    /\ UNCHANGED <<version, files, runs, approvals>>

(* ... and replaces the file with the one line changed. *)
WriteLines(p) ==
    /\ At(p, "write_lines")
    /\ verified' = process[p].verified \union {process[p].case}
    /\ Goes(p, "refresh")
    /\ UNCHANGED <<version, baseline, report, runs, approvals>>

(* mutant: the refreshed report counts what was read before the mark *)
FaultyRefreshSuite(p) ==
    /\ At(p, "refresh")
    /\ Goes(p, "refresh_report")
    /\ UNCHANGED <<version, files, runs, approvals>>

RefreshSuite(p) ==
    /\ At(p, "refresh")
    /\ Becomes(p, [process[p] EXCEPT !.pc = "refresh_report",
                                     !.verified = verified])
    /\ UNCHANGED <<version, files, runs, approvals>>

RefreshReport(p) ==
    /\ At(p, "refresh_report") /\ CurrentReport
    /\ Evidence(report, process[p].verified)
    /\ Becomes(p, [process[p] EXCEPT
           !.pc = "write_report",
           !.report = [report EXCEPT !.counted = process[p].verified]])
    /\ UNCHANGED <<version, files, runs, approvals>>

WriteReport(p) ==
    /\ At(p, "write_report")
    /\ report' = process[p].report
    /\ Goes(p, "verified")
    /\ UNCHANGED <<version, baseline, verified, runs, approvals>>

VerifyLeaves(p) ==
    /\ At(p, "verified")
    /\ Becomes(p, Idle)
    /\ UNCHANGED <<version, files, runs, approvals>>

Next ==
    \/ EditCode
    \/ \E p \in Processes :
          \/ Dies(p) \/ Leaves(p)
          \/ \E copy \in BOOLEAN : FreezeBaseline(p, copy) \/ Evaluate(p, copy)
          \/ WriteEvaluation(p) \/ Begins(p, "review") \/ Review(p)
          \/ WriteReview(p) \/ Begins(p, "verify") \/ VerifyLoad(p)
          \/ Require(p) \/ Mark(p) \/ ReadLines(p) \/ WriteLines(p)
          \/ RefreshSuite(p) \/ RefreshReport(p) \/ WriteReport(p)
          \/ VerifyLeaves(p)

Spec == Init /\ [][Next]_vars

-----------------------------------------------------------------------------
Versions == 1..MaxVersions
Reports == [run : 1..MaxRuns, baseline : Versions, passed : SUBSET Ids,
            audit : [Ids -> {"pending", "approved", "rejected"}],
            counted : SUBSET Ids]

(* Values of the declared kinds; a failed case is never approved. *)
TypeOK ==
    /\ version \in Versions /\ baseline \in Versions \union {None}
    /\ verified \subseteq Ids /\ runs \in 0..MaxRuns
    /\ report # None =>
          /\ report \in Reports
          /\ \A c \in Ids : report.audit[c] = "approved" => c \in report.passed

(* A case is marked verified only while the report on disk holds passing   *)
(* evidence of it, approved in the very run the evidence is from, of the   *)
(* frozen and installed code.  (One command at a time.)                    *)
MarkedOnEvidence ==
    \A c \in verified' \ verified :
        /\ report # None /\ report.baseline = version
        /\ c \in report.passed /\ <<c, report.run>> \in approvals

(* No decision is replayed: an approval in the report was given to that    *)
(* case in that run, whatever was evaluated, reviewed or lost meanwhile.   *)
NoReplay ==
    report # None =>
        \A c \in Ids : report.audit[c] = "approved" =>
            <<c, report.run>> \in approvals

(* A decision touches one case: what was decided on another case of the    *)
(* same run stays in the report.  (One command at a time.)                 *)
DecisionsStay ==
    (report # None /\ report' # None /\ report.run = report'.run) =>
        Cardinality({c \in Ids : report.audit[c] # report'.audit[c]}) <= 1

(* A verify-case that ends without an error leaves a report that counts    *)
(* the verified cases as the case file has them, also when an earlier one  *)
(* died between the two files.  (One command at a time.)                   *)
CountedRight ==
    \A p \in Processes :
        At(p, "verified") => report.counted = verified
                             /\ process[p].case \in verified
=============================================================================
