----------------------------- MODULE Reconcile -----------------------------
(***************************************************************************)
(* Reconciliation: what this side has booked on a day against what a       *)
(* provider says of it.  A run compares the two lists of lines it is given *)
(* and then, in one transaction, writes the run of its day and provider    *)
(* and a row for each difference, which waits until somebody resolves it.  *)
(*                                                                         *)
(* A scope is a business date with a provider.  Runs may overlap, fail     *)
(* before their commit and be made again, with other lines.                *)
(***************************************************************************)
EXTENDS Integers, Sequences, FiniteSets, SequencesExt

CONSTANTS
    Attempts,       \* calls of Runner.Run
    Scopes,
    Refs,           \* references of the provider
    Statements,     \* the lists of lines that either side may have
    Missing         \* the row of a scope, or the amount of a reference, that is not there

ASSUME StatementsAreLines == Statements \subseteq Seq([ref : Refs, amount : Int])
ASSUME MissingIsNoAmount == Missing \notin Int

VARIABLES
    runs,       \* the row of each scope in reconciliation_runs, Missing before its first run
    rows,       \* reconciliation_discrepancies, in the order of their INSERTs
    phase,      \* of each call: new, persist or done
    given,      \* what each call was given
    last,       \* history: what the run that wrote the row of each scope was given
    resolved    \* history: of each scope, the references resolved since then

reconcileVars == <<runs, rows, phase, given, last, resolved>>

----
(* Compare *)

RefsOf(lines) == {lines[i].ref : i \in DOMAIN lines}

SumOf(lines, S) ==
    SumFunctionOnSet([i \in DOMAIN lines |-> lines[i].amount], {i \in DOMAIN lines : lines[i].ref \in S})

\* Faulty variant: what only the provider has is added.
DeltaUnsigned(internal, provider) ==
    CASE provider = Missing -> internal
      [] internal = Missing -> provider
      [] OTHER -> internal - provider

\* What one reference adds to the report, with the reference's amount on either side.
DeltaOf(internal, provider) ==
    CASE provider = Missing -> internal
      [] internal = Missing -> -provider
      [] OTHER -> internal - provider

Cause(internal, provider) ==
    CASE provider = Missing -> "internal_only"
      [] internal = Missing -> "provider_only"
      [] OTHER -> "amount_mismatch"

\* Lines of one reference are added up.
Amount(lines, ref) == IF ref \in RefsOf(lines) THEN SumOf(lines, {ref}) ELSE Missing

Difference(lines, ref) ==
    LET ours == Amount(lines.internal, ref)
        theirs == Amount(lines.provider, ref)
    IN  [ref |-> ref, internal |-> ours, provider |-> theirs,
         delta |-> DeltaOf(ours, theirs), cause |-> Cause(ours, theirs)]

AllRefs(lines) == RefsOf(lines.internal) \cup RefsOf(lines.provider)
Matched(lines) == {ref \in AllRefs(lines) : Amount(lines.internal, ref) = Amount(lines.provider, ref)}
Differences(lines) == {Difference(lines, ref) : ref \in AllRefs(lines) \ Matched(lines)}

Compare(lines) ==
    [compared |-> Cardinality(AllRefs(lines)), matched |-> Cardinality(Matched(lines)),
     differences |-> Differences(lines),
     delta |-> SumFunctionOnSet([d \in Differences(lines) |-> d.delta], Differences(lines))]

----
(* Runner *)

Start(c) ==
    /\ phase[c] = "new"
    /\ \E s \in Scopes, a \in Statements, b \in Statements :
          given' = [given EXCEPT ![c] = [scope |-> s, internal |-> a, provider |-> b]]
    /\ phase' = [phase EXCEPT ![c] = "persist"]
    /\ UNCHANGED <<runs, rows, last, resolved>>

\* Faulty variant: the differences belong to the INSERT of the run, not to its UPDATE.
NewRowsFirst(s, report) == IF runs[s] = Missing THEN SetToSeq(report.differences) ELSE <<>>

\* A row for each difference, whether an earlier run of the scope has found it or not.
NewRows(s, report) == SetToSeq(report.differences)

\* INSERT ... ON CONFLICT DO UPDATE, which keeps the id of the run, and the INSERTs.
Persist(c) ==
    LET s == given[c].scope
        report == Compare(given[c])
        Row(d) == [scope |-> s, difference |-> d, resolution |-> "pending"]
        new == NewRows(s, report)
    IN
    /\ phase[c] = "persist"
    /\ runs' = [runs EXCEPT ![s] =
          [compared |-> report.compared, matched |-> report.matched,
           discrepancies |-> Cardinality(report.differences), delta |-> report.delta,
           status |-> IF report.differences = {} THEN "clean" ELSE "differences"]]
    /\ rows' = rows \o [i \in DOMAIN new |-> Row(new[i])]
    /\ phase' = [phase EXCEPT ![c] = "done"]
    /\ last' = [last EXCEPT ![s] = given[c]]
    /\ resolved' = [resolved EXCEPT ![s] = {}]
    /\ UNCHANGED given

\* A statement fails, and all is rolled back.
RollBack(c) ==
    /\ phase[c] = "persist"
    /\ phase' = [phase EXCEPT ![c] = "done"]
    /\ UNCHANGED <<runs, rows, given, last, resolved>>

OpenRows(ref) == {i \in DOMAIN rows : rows[i].difference.ref = ref /\ rows[i].resolution = "pending"}

\* By reference alone: every open row of it, of whatever day and provider.
Resolve(ref) ==
    /\ OpenRows(ref) # {}
    /\ rows' = [i \in DOMAIN rows |->
                   IF i \in OpenRows(ref) THEN [rows[i] EXCEPT !.resolution = "resolved"] ELSE rows[i]]
    /\ resolved' = [s \in Scopes |->
                       IF \E i \in OpenRows(ref) : rows[i].scope = s THEN resolved[s] \cup {ref} ELSE resolved[s]]
    /\ UNCHANGED <<runs, phase, given, last>>

----
ReconcileInit ==
    /\ runs = [s \in Scopes |-> Missing]
    /\ rows = <<>>
    /\ phase = [c \in Attempts |-> "new"]
    /\ given = [c \in Attempts |-> Missing]
    /\ last = [s \in Scopes |-> Missing]
    /\ resolved = [s \in Scopes |-> {}]

ReconcileNext ==
    \/ \E c \in Attempts : Start(c) \/ Persist(c) \/ RollBack(c)
    \/ \E ref \in Refs : Resolve(ref)

ReconcileSpec == ReconcileInit /\ [][ReconcileNext]_reconcileVars

----
(* Properties *)

\* Rows are rows of differences, and the types of what calls are given and write.
ReconcileTypeOK ==
    /\ \A s \in Scopes : runs[s] = Missing \/ runs[s].delta \in Int
    /\ \A i \in DOMAIN rows : rows[i].scope \in Scopes /\ rows[i].resolution \in {"pending", "resolved"}
    /\ phase \in [Attempts -> {"new", "persist", "done"}]
    /\ resolved \in [Scopes -> SUBSET Refs]

\* The row of a run adds up: its delta is all that is booked less all that the provider
\* has, repeated references and those of one side included, and it is called clean only
\* if both sides have the same for every reference.
RunsAddUp ==
    \A s \in Scopes : runs[s] # Missing =>
        LET ours == last[s].internal
            theirs == last[s].provider
        IN  /\ runs[s].delta = SumOf(ours, Refs) - SumOf(theirs, Refs)
            /\ runs[s].compared = runs[s].matched + runs[s].discrepancies
            /\ runs[s].status = "clean" <=>
                  /\ RefsOf(ours) = RefsOf(theirs)
                  /\ \A ref \in Refs : SumOf(ours, {ref}) = SumOf(theirs, {ref})

\* What the latest run of a day and provider has found waits in the queue, with the
\* amounts of that run, until its reference is resolved: also if the day was run before.
DifferencesStayOpen ==
    \A s \in Scopes : runs[s] # Missing =>
        \A d \in Differences(last[s]) :
            \/ d.ref \in resolved[s]
            \/ \E i \in OpenRows(d.ref) : rows[i].scope = s /\ rows[i].difference = d
=============================================================================
