------------------------ MODULE ProviderAuditProofs ------------------------
(***************************************************************************)
(* What holds of every read-only audit, for any table of checks, any       *)
(* calls, any things in a scope, and any number of changes and failing     *)
(* calls.  The invariant follows the audit from scope to scope and from    *)
(* check to check, and says which findings stand for what is behind.       *)
(***************************************************************************)
EXTENDS ProviderAudit, SequenceTheorems, WellFoundedInduction, TLAPS

\* A finding that a run may make; the name of its control is left open.
Formed(f) ==
    /\ f = [control |-> f.control, scope |-> f.scope, item |-> f.item,
            status |-> f.status, planned |-> f.planned]
    /\ f.scope \in Nat /\ f.item \in Items \cup {0} /\ f.status \in Statuses
    /\ f.planned \in BOOLEAN

\* Where the audit is: the scope is one of the call's, the check one of its
\* kind's, and what a check has read is a function on some of the things.
StageInv ==
    /\ pc = "start" => scope = 0 /\ findings = {} /\ broken = {}
    /\ pc = "scope" => scope \in 1 .. start.scopes + 1
    /\ pc \in {"idle", "check"} =>
          scope \in 1 .. start.scopes /\ at \in 1 .. Len(Table[Kind]) + 1
    /\ pc = "check" => at <= Len(Table[Kind])
    /\ seen = [i \in DOMAIN seen |-> seen[i]]

\* The findings of a scope are kept apart until the scope is left.
LocalInv ==
    /\ pc \notin {"idle", "check"} => local = {}
    /\ \A f \in local : f.scope = scope
    /\ \A f \in Found : Formed(f)

\* A document that is discarded when it cannot be read has no failed calls yet.
Discards == \E k \in KindsOf(start) : \E row \in ToSet(Table[k]) : row.onError = "discard"
DiscardInv == Discards /\ pc # "done" => broken = {}

\* What has been answered when the audit has come this far.
RowAnswered(row, s, fs) ==
    row.verdict \in {"each", "only_bad"}
        \/ \A c \in Asked(row) : \E f \in fs : f.scope = s /\ f.control = c
ScopeAnswered(s, fs) ==
    \/ \E f \in fs : f.scope = s /\ f.control = "AWS-ORG-001"
    \/ \A j \in DOMAIN Table[KindOf(s)] : RowAnswered(Table[KindOf(s)][j], s, fs)
ProgressInv ==
    /\ pc \in {"scope", "idle", "check"} => \A s \in 1 .. scope - 1 : ScopeAnswered(s, findings)
    /\ pc \in {"idle", "check"} =>
          \A j \in 1 .. at - 1 : RowAnswered(Table[Kind][j], scope, local)

\* Findings as a check makes them in scope s.
Fit(fs, s) == \A f \in fs : Formed(f) /\ f.scope = s /\ f.planned = FALSE
\* Finding f stands for the failed calls of b.
Covers(f, b) ==
    f.scope = b[1] /\ f.status \in {"ERROR", "MANUAL"} /\ f.control \in {b[2], "AWS-ORG-001"}

\* What others have done to a thing since the check began ends with what it is.
WorldInv ==
    pc = "check" =>
        /\ DOMAIN world = Items /\ DOMAIN was = Items
        /\ \A i \in Items : /\ was[i] \in Seq(Current.shapes \cup {Absent}) /\ was[i] # <<>>
                            /\ world[i] \in Ever(i)

\* What a check has read of a thing is what the thing has been, or a mixture
\* of two such; and it has read every thing that it was to read, unless the
\* thing was not there or its failure is a finding.
Taken(i) ==
    \/ seen[i] \in Ever(i) \ Current.fatal
          /\ (seen[i] = Absent => Current.reads = "join" /\ Deleted(i))
    \/ /\ Current.reads = "list"
       /\ \E u, t \in Ever(i) \ {Absent} : seen[i] = Mixed(Current, u, t)
Failed(c, i) ==
    \E f \in local : /\ f.scope = scope /\ f.status = "ERROR"
                     /\ (f.control = c /\ f.item = i) \/ f.item = 0
Excused(i) ==
    \/ Absent \in Ever(i)
    \/ Current.reads = "join" /\ was[i][1] \in Current.skip
    \/ Current.onError = "item" /\ \A c \in Asked(Current) : Failed(c, i)
    \/ Overlooked(i)
    \/ Current.garbles # "no"
ReadInv ==
    pc = "check" =>
        /\ \A i \in todo :
              /\ Current.reads = "list" => i \in DOMAIN listing /\ listing[i] \in Ever(i) \ {Absent}
              /\ Current.reads = "join" => was[i][1] # Absent /\ was[i][1] \notin Current.skip
        /\ Current.reads = "join" /\ todo # {} => DOMAIN seen = {}
        /\ \A i \in DOMAIN seen : Taken(i)
        /\ \A i \in Items \ (todo \cup DOMAIN seen) : Excused(i)

\* Failures found in this scope are those of the checks before.
FreshInv ==
    /\ pc \in {"scope", "idle", "check"} => \A f \in findings : f.scope < scope
    /\ pc \in {"idle", "check"} =>
          \A f \in local : f.status = "FAIL" =>
              \E j \in 1 .. at - 1 : f.control \in Table[Kind][j].controls

IInv == TypeOK /\ StageInv /\ LocalInv /\ DiscardInv /\ ProgressInv /\ Answered /\ ErrorsSurface
-----------------------------------------------------------------------------
LEMMA MinIs ==
    ASSUME NEW STATE S, S \subseteq Nat, S # {}
    PROVE  Min(S) \in S /\ \A y \in S : Min(S) <= y
  <1> DEFINE Less == {ss \in Nat \X Nat : ss[1] < ss[2]}
  <1>1. IsWellFoundedOn(Less, Nat)
    BY NatLessThanWellFounded DEF OpToRel
  <1> HIDE DEF Less
  <1>2. PICK x \in S : \A y \in S : ~ (<<y, x>> \in Less)
    BY <1>1, WFMin
  <1>3. ASSUME NEW y \in S PROVE x =< y
    <2>1. x \in Nat /\ y \in Nat /\ ~ (<<y, x>> \in Less)
      BY <1>2
    <2>2. y < x => <<y, x>> \in Less
      BY <2>1 DEF Less
    <2> QED BY <2>1, <2>2
  <1>4. \E m \in S : \A y \in S : m =< y
    BY <1>3
  <1> QED BY <1>4, Zenon DEF Min

\* The table has checks for every kind of scope of a call.
LEMMA Kinds ==
    ASSUME start \in Starts, NEW s
    PROVE  /\ KindOf(s) \in KindsOf(start)
           /\ Len(Table[KindOf(s)]) \in Nat
           /\ DOMAIN Table[KindOf(s)] = 1 .. Len(Table[KindOf(s)])
           /\ \A j \in DOMAIN Table[KindOf(s)] :
                 Table[KindOf(s)][j] \in ToSet(Table[KindOf(s)])
  <1>1. KindOf(s) \in KindsOf(start)
    BY DEF KindOf, KindsOf
  <1>2. KindOf(s) \in DOMAIN Table
    BY <1>1, AuditAssumption
  <1>3. Table[KindOf(s)] \in Seq(ToSet(Table[KindOf(s)]))
    BY <1>2, AuditAssumption
  <1>4. /\ Len(Table[KindOf(s)]) \in Nat
        /\ DOMAIN Table[KindOf(s)] = 1 .. Len(Table[KindOf(s)])
        /\ \A j \in DOMAIN Table[KindOf(s)] : Table[KindOf(s)][j] \in ToSet(Table[KindOf(s)])
    BY <1>3
  <1> QED BY <1>1, <1>4

\* A check is one of the table's.
LEMMA Rows ==
    ASSUME start \in Starts, at \in 1 .. Len(Table[Kind])
    PROVE  /\ Current \in ToSet(Table[Kind]) /\ SoundRow(Current)
           /\ Current.verdict \in {"each", "only_bad", "none_bad", "some_good", "manual"}
           /\ Current.reads \in {"list", "page", "join", "tasks", "file"}
           /\ Current.onError \in {"ERROR", "MANUAL", "silent", "item", "discard"}
           /\ Current.reads = "tasks" <=> Current.onError = "item"
  <1>1. Kind \in KindsOf(start) /\ Current \in ToSet(Table[Kind])
    BY Kinds DEF Kind, Current
  <1>2. Kind \in DOMAIN Table
    BY <1>1, AuditAssumption
  <1>3. SoundRow(Current)
    BY <1>1, <1>2, AuditAssumption
  <1> QED BY <1>1, <1>3 DEF SoundRow

\* Where a document is discarded there is no other check.
LEMMA NoOther ==
    ASSUME start \in Starts, scope \in Nat, at \in 1 .. Len(Table[Kind])
    PROVE  Discards <=> Current.onError = "discard"
  <1>1. /\ Kind \in KindsOf(start) /\ Current \in ToSet(Table[Kind])
        /\ DOMAIN Table[Kind] = 1 .. Len(Table[Kind])
    BY Kinds DEF Kind, Current
  <1>2. ASSUME NEW k \in KindsOf(start), NEW row \in ToSet(Table[k]), row.onError = "discard"
        PROVE  Current = row
    <2>1. KindsOf(start) = {k} /\ Len(Table[k]) = 1
      BY <1>2, AuditAssumption
    <2>2. PICK j \in DOMAIN Table[k] : row = Table[k][j]
      BY DEF ToSet
    <2> QED BY <1>1, <2>1, <2>2 DEF Current
  <1> QED BY <1>1, <1>2 DEF Discards

\* The next check is the first one later that is asked for.
LEMMA NextCheckIs ==
    ASSUME start \in Starts, NEW STATE k, k \in 0 .. Len(Table[Kind])
    PROVE  /\ NextCheck(k) \in k + 1 .. Len(Table[Kind]) + 1
           /\ \A j \in k + 1 .. NextCheck(k) - 1 : Asked(Table[Kind][j]) = {}
  <1> DEFINE len == Len(Table[Kind])
             later == {j \in k + 1 .. len : Asked(Table[Kind][j]) # {}}
  <1>1. len \in Nat
    BY Kinds DEF Kind
  <1>2. NextCheck(k) = IF later = {} THEN len + 1 ELSE Min(later)
    BY DEF NextCheck
  <1>3. CASE later = {}
    <2>1. PICK m : m = len + 1
      OBVIOUS
    <2>2. NextCheck(k) = m
      BY <1>2, <1>3, <2>1, Zenon
    <2>3. \A j : j \in k + 1 .. len => Asked(Table[Kind][j]) = {}
      BY <1>3
    <2>4. m \in k + 1 .. len + 1
      BY <1>1, <2>1
    <2>5. \A j \in k + 1 .. m - 1 : j \in k + 1 .. len
      BY <1>1, <2>1
    <2>6. \A j \in k + 1 .. m - 1 : Asked(Table[Kind][j]) = {}
      BY <2>3, <2>5
    <2> HIDE DEF later
    <2> QED BY <2>2, <2>4, <2>6
  <1>4. CASE later # {}
    <2>1. PICK S : S = later
      OBVIOUS
    <2>2. /\ S # {} /\ NextCheck(k) = Min(S)
          /\ \A j : j \in S <=> j \in k + 1 .. len /\ Asked(Table[Kind][j]) # {}
      BY <1>2, <1>4, <2>1, Zenon
    <2>3. Min(S) \in S /\ \A y \in S : Min(S) <= y
      BY <1>1, <2>2, MinIs
    <2>4. PICK m : m = Min(S)
      OBVIOUS
    <2>5. /\ m \in k + 1 .. len
          /\ \A j \in k + 1 .. len : Asked(Table[Kind][j]) # {} => m <= j
      BY <2>2, <2>3, <2>4
    <2>6. NextCheck(k) = m
      BY <2>2, <2>4
    <2>7. m \in k + 1 .. len + 1
      BY <1>1, <2>5
    <2>8. ASSUME NEW j \in k + 1 .. m - 1 PROVE Asked(Table[Kind][j]) = {}
      <3>1. j \in k + 1 .. len /\ ~ (m <= j)
        BY <1>1, <2>5
      <3> QED BY <2>5, <3>1
    <2> QED BY <2>6, <2>7, <2>8
  <1> QED BY <1>3, <1>4
-----------------------------------------------------------------------------
\* Whatever a check reads, it makes findings in its scope, and all its
\* controls are answered unless it answers for each thing.
LEMMA VerdictsAre ==
    ASSUME scope \in Nat, NEW STATE row, NEW STATE s, DOMAIN s \subseteq Items,
           row.verdict \in {"each", "only_bad", "none_bad", "some_good", "manual"}
    PROVE  Fit(Verdicts(row, s), scope) /\ RowAnswered(row, scope, Verdicts(row, s))
  <1> DEFINE each == {Finding(c, scope, i, Judge(row, c, s[i])) : c \in Asked(row), i \in DOMAIN s}
  <1>1. \A f \in each : \E c : \E i \in Items, st \in Statuses : f = Finding(c, scope, i, st)
    BY DEF Judge, Statuses, Finding
  <1>2. CASE row.verdict \in {"each", "only_bad"}
    <2>1. Verdicts(row, s) \subseteq each
      BY <1>2 DEF Verdicts
    <2>2. Fit(Verdicts(row, s), scope)
      <3>1. ASSUME NEW f \in Verdicts(row, s)
            PROVE  Formed(f) /\ f.scope = scope /\ f.planned = FALSE
        <4>1. PICK c : \E i \in Items, st \in Statuses : f = Finding(c, scope, i, st)
          BY <1>1, <2>1
        <4> QED BY <4>1 DEF Formed, Finding
      <3> QED BY <3>1 DEF Fit
    <2> QED BY <1>2, <2>2 DEF RowAnswered
  <1>3. CASE row.verdict \notin {"each", "only_bad"}
    <2>1. /\ \A f \in Verdicts(row, s) : \E c : \E st \in Statuses : f = Finding(c, scope, 0, st)
          /\ \A c \in Asked(row) : \E st \in Statuses : Finding(c, scope, 0, st) \in Verdicts(row, s)
      <3>1. CASE row.verdict = "manual"
        <4>1. Verdicts(row, s) = {Finding(c, scope, 0, "MANUAL") : c \in Asked(row)}
          BY <3>1 DEF Verdicts
        <4> QED BY <4>1 DEF Statuses, Finding
      <3>2. CASE row.verdict = "none_bad"
        <4>1. Verdicts(row, s) =
                 {Finding(c, scope, 0, IF \E i \in DOMAIN s : Judge(row, c, s[i]) = "FAIL" THEN "FAIL" ELSE "PASS")
                    : c \in Asked(row)}
          BY <3>2 DEF Verdicts
        <4> QED BY <4>1 DEF Statuses, Finding
      <3>3. CASE row.verdict = "some_good"
        <4>1. Verdicts(row, s) =
                 {Finding(c, scope, 0, IF \E i \in DOMAIN s : Judge(row, c, s[i]) = "PASS" THEN "PASS" ELSE "FAIL")
                    : c \in Asked(row)}
          BY <3>3 DEF Verdicts
        <4> QED BY <4>1 DEF Statuses, Finding
      <3> QED BY <1>3, <3>1, <3>2, <3>3
    <2>2. Fit(Verdicts(row, s), scope)
      <3>1. ASSUME NEW f \in Verdicts(row, s)
            PROVE  Formed(f) /\ f.scope = scope /\ f.planned = FALSE
        <4>1. PICK c : \E st \in Statuses : f = Finding(c, scope, 0, st)
          BY <2>1
        <4> QED BY <4>1 DEF Formed, Finding
      <3> QED BY <3>1 DEF Fit
    <2>3. \A c \in Asked(row) : \E f \in Verdicts(row, s) : f.scope = scope /\ f.control = c
      BY <2>1 DEF Finding
    <2> QED BY <2>2, <2>3 DEF RowAnswered
  <1> QED BY <1>2, <1>3

\* A handler that ends the check answers all its controls.
LEMMA OnFailureIs ==
    ASSUME scope \in Nat, NEW STATE row, NEW STATE s, NEW i, DOMAIN s \subseteq Items,
           row.verdict \in {"each", "only_bad", "none_bad", "some_good", "manual"},
           row.onError \in {"ERROR", "MANUAL"}
    PROVE  /\ Fit(OnFailure(row, s, i), scope) /\ RowAnswered(row, scope, OnFailure(row, s, i))
           /\ \A c \in Asked(row) : \E f \in OnFailure(row, s, i) : Covers(f, <<scope, c>>)
  <1> DEFINE own == {Finding(c, scope, 0, row.onError) : c \in Asked(row)}
             before == Restrict(s, {j \in DOMAIN s : j < i})
  <1>1. DOMAIN before \subseteq Items
    BY DEF Restrict
  <1>2. Fit(Verdicts(row, before), scope)
    <2> HIDE DEF before
    <2> QED BY <1>1, VerdictsAre
  <1>3. Fit(own, scope)
    <2>1. ASSUME NEW f \in own
          PROVE  Formed(f) /\ f.scope = scope /\ f.planned = FALSE
      <3>1. PICK c : f = Finding(c, scope, 0, row.onError)
        BY <2>1
      <3> QED BY <3>1 DEF Statuses, Formed, Finding
    <2> HIDE DEF own
    <2> QED BY <2>1 DEF Fit
  <1>4. ASSUME NEW c \in Asked(row)
        PROVE  \E f \in own : f.scope = scope /\ f.control = c /\ f.status \in {"ERROR", "MANUAL"}
    <2>1. PICK f : f = Finding(c, scope, 0, row.onError)
      OBVIOUS
    <2>2. f \in own /\ f.scope = scope /\ f.control = c /\ f.status = row.onError
      BY <2>1 DEF Finding
    <2> HIDE DEF own
    <2> QED BY <2>2
  <1>5. OnFailure(row, s, i) = own \cup IF row.verdict = "each" THEN Verdicts(row, before) ELSE {}
    BY DEF OnFailure
  <1> HIDE DEF own, before
  <1>6. Fit(OnFailure(row, s, i), scope)
    BY <1>2, <1>3, <1>5 DEF Fit
  <1>7. \A c \in Asked(row) : \E f \in OnFailure(row, s, i) :
            f.scope = scope /\ f.control = c /\ f.status \in {"ERROR", "MANUAL"}
    BY <1>4, <1>5
  <1> QED BY <1>6, <1>7 DEF RowAnswered, Covers
-----------------------------------------------------------------------------
\* What the call fixes does not change.
LEMMA Fixed ==
    ASSUME start' = start
    PROVE  /\ \A s : KindOf(s)' = KindOf(s)
           /\ \A row : Asked(row)' = Asked(row)
           /\ scope' = scope => Kind' = Kind
  BY DEF KindOf, Asked, Selected, Kind

LEMMA StillAnswered ==
    ASSUME start' = start, findings \subseteq findings', NEW s, ScopeAnswered(s, findings)
    PROVE  ScopeAnswered(s, findings)'
  <1>1. KindOf(s)' = KindOf(s)
    BY Fixed
  <1>2. CASE \E f \in findings : f.scope = s /\ f.control = "AWS-ORG-001"
    BY <1>2 DEF ScopeAnswered
  <1>3. CASE \A j \in DOMAIN Table[KindOf(s)] : RowAnswered(Table[KindOf(s)][j], s, findings)
    BY <1>1, <1>3 DEF ScopeAnswered, RowAnswered, Asked, Selected
  <1> QED BY <1>2, <1>3 DEF ScopeAnswered

\* A step inside a scope that adds the findings fs, and answers with them the
\* checks it goes past.
LEMMA Inside ==
    ASSUME IInv, pc \in {"idle", "check"}, pc' \in {"idle", "check"},
           UNCHANGED <<start, scope, findings>>,
           NEW fs, local' = local \cup fs, Fit(fs, scope),
           at' \in at .. Len(Table[Kind]) + 1, pc' = "check" => at' <= Len(Table[Kind]),
           \A j \in at .. at' - 1 : RowAnswered(Table[Kind][j], scope, fs),
           todo' \subseteq Items, DOMAIN seen' \subseteq Items, DOMAIN listing' \subseteq Items,
           seen' = [i \in DOMAIN seen' |-> seen'[i]],
           changes' \in 0 .. MaxChanges, faults' \in 0 .. MaxFaults,
           \A b \in broken' : b \in broken \/ \E f \in fs : Covers(f, b),
           Discards => broken' = broken
    PROVE  IInv'
  <1>0. /\ TypeOK /\ StageInv /\ LocalInv /\ DiscardInv /\ ProgressInv /\ ErrorsSurface
        /\ start \in Starts /\ scope \in 1 .. start.scopes /\ start.scopes \in Nat
        /\ at \in 1 .. Len(Table[Kind]) + 1 /\ Len(Table[Kind]) \in Nat
        /\ Kind' = Kind
    BY Kinds, Fixed, AuditAssumption DEF IInv, TypeOK, StageInv, Kind
  <1>1. Found' = Found \cup fs
    BY DEF Found
  <1>2. TypeOK'
    <2>1. ASSUME NEW f \in Found'
          PROVE  /\ f.scope \in 0 .. start.scopes
                 /\ f.item \in Items \cup {0}
                 /\ f.status \in Statuses
                 /\ f.planned => f.status = "FAIL" /\ start.mode = "plan"
      <3>1. CASE f \in Found
        BY <1>0, <3>1 DEF TypeOK
      <3>2. CASE f \in fs
        BY <1>0, <3>2 DEF Fit, Formed
      <3> QED BY <1>1, <3>1, <3>2
    <2> QED BY <1>0, <2>1 DEF TypeOK
  <1>3. StageInv'
    BY <1>0 DEF StageInv
  <1>4. LocalInv'
    BY <1>0, <1>1 DEF LocalInv, Fit
  <1>5. DiscardInv'
    BY <1>0 DEF DiscardInv, Discards
  <1>6. ProgressInv'
    <2>1. \A s \in 1 .. scope - 1 : ScopeAnswered(s, findings)'
      <3>1. \A s \in 1 .. scope - 1 : ScopeAnswered(s, findings)
        BY <1>0 DEF ProgressInv
      <3> QED BY <3>1, StillAnswered
    <2>2. ASSUME NEW j \in 1 .. at' - 1
          PROVE  RowAnswered(Table[Kind][j], scope, local \cup fs)
      <3>1. CASE j < at
        <4>1. RowAnswered(Table[Kind][j], scope, local)
          BY <1>0, <3>1 DEF ProgressInv
        <4> QED BY <4>1 DEF RowAnswered
      <3>2. CASE at <= j
        <4>1. RowAnswered(Table[Kind][j], scope, fs)
          BY <1>0, <3>2
        <4> QED BY <4>1 DEF RowAnswered
      <3> QED BY <1>0, <3>1, <3>2
    <2>3. \A j \in 1 .. at' - 1 : RowAnswered(Table[Kind][j], scope, local)'
      BY <1>0, <2>2 DEF RowAnswered, Asked, Selected
    <2> QED BY <1>0, <2>1, <2>3 DEF ProgressInv
  <1>7. Answered'
    BY DEF Answered
  <1>8. ErrorsSurface'
    <2>1. ASSUME NEW b \in broken' PROVE \E f \in Found' : Covers(f, b)
      BY <1>0, <1>1, <2>1 DEF ErrorsSurface, Covers
    <2> QED BY <2>1 DEF ErrorsSurface, Covers
  <1> QED BY <1>2, <1>3, <1>4, <1>5, <1>6, <1>7, <1>8 DEF IInv

LEMMA Nothing == <<>> = [i \in DOMAIN <<>> |-> <<>>[i]] /\ DOMAIN <<>> = {}
  OBVIOUS

\* A step inside a check that adds no findings.
LEMMA Within ==
    ASSUME IInv, pc \in {"idle", "check"}, at <= Len(Table[Kind]), pc' = "check",
           UNCHANGED <<start, scope, at, local, findings, broken>>,
           todo' \subseteq Items, DOMAIN seen' \subseteq Items, DOMAIN listing' \subseteq Items,
           seen' = [i \in DOMAIN seen' |-> seen'[i]],
           changes' \in 0 .. MaxChanges, faults' \in 0 .. MaxFaults
    PROVE  IInv'
  <1>1. PICK fs : fs = {}
    OBVIOUS
  <1>2. Fit(fs, scope)
    BY <1>1 DEF Fit
  <1>3. at \in Nat /\ at' = at /\ at' \in at .. Len(Table[Kind]) + 1 /\ at' <= Len(Table[Kind])
    BY Kinds DEF IInv, StageInv, TypeOK, Kind
  <1>4. \A j \in at .. at' - 1 : RowAnswered(Table[Kind][j], scope, fs)
    BY <1>3
  <1> QED BY <1>1, <1>2, <1>3, <1>4, Inside

LEMMA BeginStep == ASSUME IInv, Begin PROVE IInv'
  <1>0. at \in 1 .. Len(Table[Kind]) /\ start \in Starts
    BY Kinds DEF IInv, TypeOK, StageInv, Begin, Kind
  <1>1. /\ todo' \subseteq Items /\ DOMAIN seen' \subseteq Items /\ DOMAIN listing' \subseteq Items
        /\ seen' = [i \in DOMAIN seen' |-> seen'[i]]
    <2>1. CASE Current.reads = "list"
      <3>1. PICK A \in SUBSET Items, B \in SUBSET Items :
                /\ listing' = Restrict(world', A) /\ todo' = A /\ seen' = Restrict(world', B)
        BY <2>1 DEF Begin
      <3> QED BY <3>1 DEF Restrict
    <2>2. CASE Current.reads \in {"join", "tasks", "file"}
      <3>1. todo' \subseteq Items /\ listing' = <<>> /\ seen' = <<>>
        BY <2>2 DEF Begin
      <3> QED BY <3>1, Nothing
    <2>3. CASE Current.reads = "page"
      <3>1. todo' \subseteq Items /\ listing' = <<>> /\ seen' = <<>>
        BY <2>3 DEF Begin
      <3> QED BY <3>1, Nothing
    <2> QED BY <1>0, <2>1, <2>2, <2>3, Rows
  <1>2. changes' \in 0 .. MaxChanges /\ faults' \in 0 .. MaxFaults
    BY AuditAssumption DEF IInv, TypeOK, Begin
  <1> QED BY <1>1, <1>2, Within DEF Begin

LEMMA ReadStep == ASSUME IInv, NEW i \in Items, Read(i) PROVE IInv'
  <1>0. at \in 1 .. Len(Table[Kind]) /\ TypeOK /\ StageInv
    BY Kinds DEF IInv, TypeOK, StageInv, Read, Kind
  <1>1. /\ todo' \subseteq Items /\ DOMAIN seen' \subseteq Items
        /\ seen' = [j \in DOMAIN seen' |-> seen'[j]]
    <2>1. PICK t : t = Merged(i)
      OBVIOUS
    <2>2. \/ seen' = Noted(i, t) /\ todo' = todo \ {i}
          \/ seen' = Restrict(world, todo) /\ todo' = {}
          \/ seen' = seen /\ todo' = todo \ {i}
          \/ seen' = Noted(i, world[i]) /\ todo' = todo \ {i}
      BY <2>1 DEF Read
    <2>3. CASE seen' = seen /\ todo' = todo \ {i}
      BY <1>0, <2>3 DEF TypeOK, StageInv
    <2>4. CASE seen' = Restrict(world, todo) /\ todo' = {}
      BY <1>0, <2>4 DEF TypeOK, Restrict
    <2>5. CASE seen' = Noted(i, t) /\ todo' = todo \ {i}
      BY <1>0, <2>5 DEF TypeOK, Noted
    <2>6. CASE seen' = Noted(i, world[i]) /\ todo' = todo \ {i}
      BY <1>0, <2>6 DEF TypeOK, Noted
    <2> QED BY <2>2, <2>3, <2>4, <2>5, <2>6
  <1>2. DOMAIN listing' \subseteq Items /\ changes' \in 0 .. MaxChanges /\ faults' \in 0 .. MaxFaults
    BY <1>0 DEF TypeOK, Read
  <1> QED BY <1>0, <1>1, <1>2, Within DEF Read

LEMMA ChangeStep == ASSUME IInv, NEW i \in Items, Change(i) PROVE IInv'
  <1>0. at \in 1 .. Len(Table[Kind]) /\ TypeOK /\ StageInv
    BY Kinds DEF IInv, TypeOK, StageInv, Change, Kind
  <1>1. /\ todo' \subseteq Items /\ DOMAIN seen' \subseteq Items
        /\ seen' = [j \in DOMAIN seen' |-> seen'[j]]
    BY <1>0 DEF TypeOK, StageInv, Change
  <1>2. DOMAIN listing' \subseteq Items /\ changes' \in 0 .. MaxChanges /\ faults' \in 0 .. MaxFaults
    BY <1>0, AuditAssumption DEF TypeOK, Change
  <1> QED BY <1>0, <1>1, <1>2, Within DEF Change

\* A step that ends a check and answers it.
LEMMA AdvanceStep ==
    ASSUME IInv, pc \in {"idle", "check"}, at <= Len(Table[Kind]),
           UNCHANGED <<start, scope, findings>>,
           NEW STATE gs, Advance(gs), Fit(gs, scope), RowAnswered(Current, scope, gs),
           faults' \in 0 .. MaxFaults,
           \A b \in broken' : b \in broken \/ \E f \in gs : Covers(f, b),
           Discards => broken' = broken
    PROVE  IInv'
  <1>1. PICK fs : fs = gs
    OBVIOUS
  <1>2. Fit(fs, scope) /\ RowAnswered(Current, scope, fs)
    BY <1>1, Zenon
  <1>3. local' = local \cup fs /\ at' = NextCheck(at) /\ pc' = "idle"
    BY <1>1 DEF Advance
  <1>4. /\ at \in 1 .. Len(Table[Kind]) /\ Len(Table[Kind]) \in Nat /\ start \in Starts
        /\ at \in 0 .. Len(Table[Kind]) /\ at \in Nat
    BY Kinds DEF IInv, TypeOK, StageInv, Kind
  <1>5. /\ at' \in at .. Len(Table[Kind]) + 1 /\ at' \in Nat
        /\ \A j \in at + 1 .. at' - 1 : Asked(Table[Kind][j]) = {}
    <2>1. PICK n : n = NextCheck(at)
      OBVIOUS
    <2>2. n \in at + 1 .. Len(Table[Kind]) + 1 /\ \A j \in at + 1 .. n - 1 : Asked(Table[Kind][j]) = {}
      BY <1>4, <2>1, NextCheckIs, Zenon
    <2>3. at' = n
      BY <1>3, <2>1
    <2>4. \A j \in at + 1 .. at' - 1 : Asked(Table[Kind][j]) = {}
      BY <2>2, <2>3, Zenon
    <2>5. n \in at .. Len(Table[Kind]) + 1 /\ n \in Nat
      BY <1>4, <2>2
    <2>6. at' \in at .. Len(Table[Kind]) + 1 /\ at' \in Nat
      BY <2>3, <2>5
    <2> QED BY <2>4, <2>6
  <1>6. ASSUME NEW j \in at .. at' - 1 PROVE RowAnswered(Table[Kind][j], scope, fs)
    <2>1. CASE j = at
      BY <1>2, <2>1 DEF Current
    <2>2. CASE j # at
      <3>1. j \in at + 1 .. at' - 1
        BY <1>4, <1>5, <2>2
      <3>2. Asked(Table[Kind][j]) = {}
        BY <1>5, <3>1
      <3> QED BY <3>2 DEF RowAnswered
    <2> QED BY <2>1, <2>2
  <1>7. /\ todo' \subseteq Items /\ DOMAIN seen' \subseteq Items /\ DOMAIN listing' \subseteq Items
        /\ seen' = [i \in DOMAIN seen' |-> seen'[i]]
        /\ changes' \in 0 .. MaxChanges
    BY Nothing, AuditAssumption DEF Advance, Rested
  <1>8. \A b \in broken' : b \in broken \/ \E f \in fs : Covers(f, b)
    BY <1>1
  <1> QED BY <1>2, <1>3, <1>5, <1>6, <1>7, <1>8, Inside

LEMMA CloseStep == ASSUME IInv, Close PROVE IInv'
  <1>0. /\ at \in 1 .. Len(Table[Kind]) /\ start \in Starts /\ scope \in Nat
        /\ DOMAIN seen \subseteq Items /\ faults \in 0 .. MaxFaults
    BY Kinds, AuditAssumption DEF IInv, TypeOK, StageInv, Close, Kind
  <1>1. Fit(Verdicts(Current, seen), scope) /\ RowAnswered(Current, scope, Verdicts(Current, seen))
    BY <1>0, Rows, VerdictsAre
  <1> QED BY <1>0, <1>1, AdvanceStep DEF Close

LEMMA ListFailsStep == ASSUME IInv, ListFails PROVE IInv'
  <1>0. /\ at \in 1 .. Len(Table[Kind]) /\ start \in Starts /\ scope \in Nat
        /\ faults' \in 0 .. MaxFaults
    BY Kinds, AuditAssumption DEF IInv, TypeOK, StageInv, ListFails, Kind
  <1>1. Current.onError \in {"ERROR", "MANUAL"}
    BY DEF ListFails
  <1>2. PICK gs : gs = OnFailure(Current, <<>>, 0)
    OBVIOUS
  <1>3. /\ Fit(gs, scope) /\ RowAnswered(Current, scope, gs)
        /\ \A c \in Asked(Current) : \E f \in gs : Covers(f, <<scope, c>>)
    BY <1>0, <1>1, <1>2, Rows, OnFailureIs, Nothing
  <1>4. \A b \in broken' : b \in broken \/ \E f \in gs : Covers(f, b)
    BY <1>1, <1>3 DEF ListFails, Blamed
  <1>5. ~Discards
    BY <1>0, <1>1, NoOther
  <1> QED BY <1>0, <1>2, <1>3, <1>4, <1>5, AdvanceStep DEF ListFails

LEMMA OutdatedStep == ASSUME IInv, OutdatedSdk PROVE IInv'
  <1>0. /\ at \in 1 .. Len(Table[Kind]) /\ start \in Starts /\ scope \in Nat
        /\ faults \in 0 .. MaxFaults
    BY Kinds, AuditAssumption DEF IInv, TypeOK, StageInv, OutdatedSdk, Kind
  <1> DEFINE gs == {Finding(c, scope, 0, "MANUAL") : c \in Asked(Current)}
  <1>1. ASSUME NEW f \in gs PROVE Formed(f) /\ f.scope = scope /\ f.planned = FALSE
    <2>1. PICK c : f = Finding(c, scope, 0, "MANUAL")
      BY <1>1
    <2> QED BY <1>0, <2>1 DEF Formed, Finding, Statuses
  <1>2. ASSUME NEW c \in Asked(Current) PROVE \E f \in gs : f.scope = scope /\ f.control = c
    <2>1. PICK f : f = Finding(c, scope, 0, "MANUAL")
      OBVIOUS
    <2>2. f \in gs /\ f.scope = scope /\ f.control = c
      BY <2>1 DEF Finding
    <2> HIDE DEF gs
    <2> QED BY <2>2
  <1>3. Advance(gs)
    BY DEF OutdatedSdk
  <1> HIDE DEF gs
  <1>4. Fit(gs, scope) /\ RowAnswered(Current, scope, gs)
    BY <1>1, <1>2 DEF Fit, RowAnswered
  <1> QED BY <1>0, <1>3, <1>4, AdvanceStep DEF OutdatedSdk

\* A step of a check with a finding per failed thing.
LEMMA ItemStep ==
    ASSUME IInv, pc = "check", pc' = "check", NEW fs, Fit(fs, scope),
           UNCHANGED <<start, scope, findings, at, seen, listing, changes>>,
           local' = local \cup fs, todo' \subseteq todo, faults' \in 0 .. MaxFaults,
           \A b \in broken' : b \in broken \/ \E f \in fs : Covers(f, b),
           ~Discards
    PROVE  IInv'
  <1>0. /\ at \in 1 .. Len(Table[Kind]) /\ Len(Table[Kind]) \in Nat
        /\ TypeOK /\ StageInv
    BY Kinds DEF IInv, TypeOK, StageInv, Kind
  <1>1. at \in Nat /\ at' \in at .. Len(Table[Kind]) + 1 /\ at' <= Len(Table[Kind]) /\ at' = at
    BY <1>0
  <1>2. \A j \in at .. at' - 1 : RowAnswered(Table[Kind][j], scope, fs)
    BY <1>1
  <1>3. /\ todo' \subseteq Items /\ DOMAIN seen' \subseteq Items /\ DOMAIN listing' \subseteq Items
        /\ seen' = [i \in DOMAIN seen' |-> seen'[i]]
        /\ changes' \in 0 .. MaxChanges
    BY <1>0 DEF TypeOK, StageInv
  <1> QED BY <1>1, <1>2, <1>3, Inside

LEMMA LimiterStep == ASSUME IInv, NEW i \in Items, LimiterRaises(i) PROVE IInv'
  <1>0. /\ at \in 1 .. Len(Table[Kind]) /\ start \in Starts /\ scope \in Nat
        /\ faults' \in 0 .. MaxFaults
    BY Kinds, AuditAssumption DEF IInv, TypeOK, StageInv, LimiterRaises, Kind
  <1>1. ~Discards
    BY <1>0, Rows, NoOther DEF LimiterRaises
  <1>2. PICK f : f = Finding("NET-TLS-001", scope, 0, "ERROR")
    OBVIOUS
  <1>3. /\ Formed(f) /\ f.scope = scope /\ f.planned = FALSE
        /\ Covers(f, <<scope, "NET-TLS-001">>)
    BY <1>0, <1>2 DEF Finding, Formed, Covers, Statuses
  <1>4. Fit({f}, scope)
    BY <1>3 DEF Fit
  <1>5. \A b \in broken' : b \in broken \/ \E g \in {f} : Covers(g, b)
    BY <1>3 DEF LimiterRaises
  <1>6. local' = local \cup {f}
    BY <1>2 DEF LimiterRaises
  <1> QED BY <1>0, <1>1, <1>4, <1>5, <1>6, ItemStep DEF LimiterRaises

LEMMA FailsStep == ASSUME IInv, NEW i \in Items, Fails(i) PROVE IInv'
  <1>0. /\ at \in 1 .. Len(Table[Kind]) /\ start \in Starts /\ scope \in Nat
        /\ DOMAIN seen \subseteq Items /\ faults' \in 0 .. MaxFaults
        /\ pc = "check" /\ at <= Len(Table[Kind])
        /\ UNCHANGED <<start, scope>> /\ HandleFailure(i)
    BY Kinds, AuditAssumption DEF IInv, TypeOK, StageInv, Fails, Kind
  <1>1. Current.onError \in {"ERROR", "MANUAL", "silent", "item", "discard"}
    BY <1>0, Rows
  <1>2. CASE Current.onError = "silent"
    <2>1. /\ UNCHANGED <<pc, at, listing, seen, changes, local, findings, broken>>
          /\ todo' = todo \ {i}
      BY <1>0, <1>2 DEF HandleFailure, Fails
    <2>2. /\ todo' \subseteq Items /\ DOMAIN seen' \subseteq Items /\ DOMAIN listing' \subseteq Items
          /\ seen' = [j \in DOMAIN seen' |-> seen'[j]]
          /\ changes' \in 0 .. MaxChanges
      BY <2>1 DEF IInv, TypeOK, StageInv
    <2> QED BY <1>0, <2>1, <2>2, Within
  <1>3. CASE Current.onError = "item"
    <2> DEFINE fs == {Finding(c, scope, i, "ERROR") : c \in Asked(Current)}
    <2>1. /\ UNCHANGED <<pc, at, listing, seen, changes, findings>>
          /\ todo' \subseteq todo
          /\ local' = local \cup fs
          /\ broken' = broken \cup {<<scope, c>> : c \in Asked(Current)}
      BY <1>0, <1>3 DEF HandleFailure, Fails, Blamed
    <2>2. ASSUME NEW f \in fs PROVE Formed(f) /\ f.scope = scope /\ f.planned = FALSE
      <3>1. PICK c : f = Finding(c, scope, i, "ERROR")
        BY <2>2
      <3> QED BY <1>0, <3>1 DEF Formed, Finding, Statuses
    <2>3. ASSUME NEW c \in Asked(Current) PROVE \E f \in fs : Covers(f, <<scope, c>>)
      <3>1. PICK f : f = Finding(c, scope, i, "ERROR")
        OBVIOUS
      <3>2. f \in fs /\ Covers(f, <<scope, c>>)
        BY <3>1 DEF Finding, Covers
      <3> HIDE DEF fs
      <3> QED BY <3>2
    <2>4. ~Discards
      BY <1>0, <1>3, NoOther
    <2> HIDE DEF fs
    <2>5. PICK gs : gs = fs
      OBVIOUS
    <2>6. Fit(gs, scope) /\ local' = local \cup gs
      BY <2>1, <2>2, <2>5 DEF Fit
    <2>7. \A b \in broken' : b \in broken \/ \E f \in gs : Covers(f, b)
      BY <2>1, <2>3, <2>5
    <2> QED BY <1>0, <2>1, <2>4, <2>6, <2>7, ItemStep
  <1>4. CASE Current.onError \in {"ERROR", "MANUAL"}
    <2>1. PICK gs : gs = OnFailure(Current, seen, i)
      OBVIOUS
    <2>2. /\ Fit(gs, scope) /\ RowAnswered(Current, scope, gs)
          /\ \A c \in Asked(Current) : \E f \in gs : Covers(f, <<scope, c>>)
      BY <1>0, <1>4, <2>1, Rows, OnFailureIs
    <2>3. Advance(gs) /\ UNCHANGED findings
      BY <1>0, <1>4, <2>1 DEF HandleFailure
    <2>4. \A b \in broken' : b \in broken \/ \E f \in gs : Covers(f, b)
      BY <1>4, <2>2 DEF Fails, Blamed
    <2>5. ~Discards
      BY <1>0, <1>4, NoOther
    <2> QED BY <1>0, <2>2, <2>3, <2>4, <2>5, AdvanceStep
  <1>5. CASE Current.onError = "discard"
    <2>1. PICK f : f = Finding("TF-SEC-001", scope, 0, "ERROR")
      OBVIOUS
    <2>2. /\ findings' = {f} /\ local' = {} /\ pc' = "done" /\ Rested /\ UNCHANGED at
          /\ broken' = broken \cup {<<scope, "TF-SEC-001">>}
      BY <1>0, <1>5, <2>1 DEF HandleFailure, Fails, Blamed
    <2>3. Formed(f) /\ f.planned = FALSE /\ Covers(f, <<scope, "TF-SEC-001">>) /\ Unstarted(f)
      BY <1>0, <2>1 DEF Finding, Formed, Covers, Statuses, Unstarted
    <2>4. scope \in 1 .. start.scopes /\ start.scopes \in Nat /\ f.scope = scope
      BY <1>0, <2>1, AuditAssumption DEF IInv, StageInv, Finding
    <2>5. broken = {}
      BY <1>0, <1>5, NoOther DEF IInv, DiscardInv
    <2>6. TypeOK'
      BY <1>0, <2>2, <2>3, <2>4, Nothing, AuditAssumption DEF IInv, TypeOK, Rested, Found, Formed
    <2>7. StageInv'
      BY <2>2, Nothing DEF StageInv, Rested
    <2>8. LocalInv' /\ DiscardInv' /\ ProgressInv'
      BY <2>2, <2>3 DEF LocalInv, DiscardInv, ProgressInv, Found
    <2>9. Answered'
      BY <2>2, <2>3 DEF Answered, Unstarted
    <2>10. ErrorsSurface'
      BY <2>2, <2>3, <2>5 DEF ErrorsSurface, Covers, Found
    <2> QED BY <2>6, <2>7, <2>8, <2>9, <2>10 DEF IInv
  <1> QED BY <1>1, <1>2, <1>3, <1>4, <1>5

LEMMA InitInv == Init => IInv
  <1> SUFFICES ASSUME Init PROVE IInv
    OBVIOUS
  <1>1. TypeOK /\ StageInv
    BY AuditAssumption, Nothing DEF Init, TypeOK, StageInv, Found
  <1>2. LocalInv /\ DiscardInv /\ ProgressInv /\ Answered /\ ErrorsSurface
    BY DEF Init, LocalInv, DiscardInv, ProgressInv, Answered, ErrorsSurface, Found
  <1> QED BY <1>1, <1>2 DEF IInv

\* The bootstrap: an audit that does not start says so.
LEMMA BootStep == ASSUME IInv, Boot PROVE IInv'
  <1>0. start \in Starts /\ start.scopes \in Nat
    BY AuditAssumption DEF IInv, TypeOK
  <1>1. UNCHANGED <<start, at, check, local, findings, faults, broken>> /\ scope' = 1 /\ pc' = "scope"
    BY DEF Boot
  <1>2. TypeOK'
    BY <1>0, <1>1 DEF IInv, TypeOK, Found, check
  <1>3. StageInv' /\ LocalInv' /\ DiscardInv'
    BY <1>0, <1>1 DEF IInv, StageInv, LocalInv, DiscardInv, Discards, Found, check, Boot
  <1>4. ProgressInv' /\ Answered'
    BY <1>1 DEF ProgressInv, Answered
  <1>5. ErrorsSurface'
    BY <1>1 DEF IInv, StageInv, ErrorsSurface, Boot
  <1> QED BY <1>2, <1>3, <1>4, <1>5 DEF IInv

LEMMA EndsEarly ==
    ASSUME IInv, pc = "start", pc' = "done", faults' \in 0 .. MaxFaults,
           UNCHANGED <<start, scope, at, check, local, broken>>,
           NEW C, NEW st \in Statuses, findings' = {Finding(c, 0, 0, st) : c \in C}, C # {}
    PROVE  IInv'
  <1>0. start \in Starts /\ start.scopes \in Nat /\ scope = 0 /\ local = {} /\ broken = {}
    BY AuditAssumption DEF IInv, TypeOK, StageInv, LocalInv
  <1>1. ASSUME NEW f \in findings'
        PROVE  Formed(f) /\ f.planned = FALSE /\ f.scope = 0 /\ f.item = 0
    <2>1. PICK c : f = Finding(c, 0, 0, st)
      BY <1>1
    <2> QED BY <2>1 DEF Formed, Finding
  <1>2. findings' # {}
    OBVIOUS
  <1>3. Found' = findings'
    BY <1>0 DEF Found
  <1>4. TypeOK'
    <2>1. ASSUME NEW f \in Found'
          PROVE  /\ f.scope \in 0 .. start.scopes
                 /\ f.item \in Items \cup {0}
                 /\ f.status \in Statuses
                 /\ f.planned => f.status = "FAIL" /\ start.mode = "plan"
      <3>1. Formed(f) /\ f.scope = 0 /\ f.planned = FALSE
        BY <1>1, <1>3
      <3> QED BY <1>0, <3>1 DEF Formed
    <2> QED BY <1>0, <2>1 DEF IInv, TypeOK, check
  <1>5. StageInv' /\ LocalInv' /\ DiscardInv' /\ ProgressInv'
    BY <1>0, <1>1, <1>3 DEF IInv, StageInv, LocalInv, DiscardInv, ProgressInv, check
  <1>6. Answered'
    BY <1>1, <1>2 DEF Answered, Unstarted
  <1>7. ErrorsSurface'
    BY <1>0 DEF ErrorsSurface
  <1> QED BY <1>4, <1>5, <1>6, <1>7 DEF IInv

LEMMA BootFailsStep == ASSUME IInv, BootFails PROVE IInv'
  <1>0. start \in Starts /\ faults' \in 0 .. MaxFaults
    BY AuditAssumption DEF IInv, TypeOK, BootFails
  <1>1. PICK how : IF how = "raised"
                   THEN pc' = "raised" /\ UNCHANGED findings
                   ELSE pc' = "done" /\ findings' = {Finding(how, 0, 0, "ERROR")}
    BY DEF BootFails
  <1>2. CASE how = "raised"
    <2>1. TypeOK'
      BY <1>0, <1>1, <1>2 DEF IInv, TypeOK, Found, check, BootFails
    <2>2. StageInv' /\ LocalInv'
      BY <1>1, <1>2 DEF IInv, StageInv, LocalInv, Found, check, BootFails
    <2>3. DiscardInv' /\ ProgressInv' /\ Answered' /\ ErrorsSurface'
      BY <1>1, <1>2 DEF IInv, DiscardInv, Discards, ProgressInv, Answered, ErrorsSurface, BootFails
    <2> QED BY <2>1, <2>2, <2>3 DEF IInv
  <1>3. CASE how # "raised"
    <2>1. findings' = {Finding(c, 0, 0, "ERROR") : c \in {how}} /\ {how} # {}
      BY <1>1, <1>3
    <2> QED BY <1>0, <1>1, <1>3, <2>1, EndsEarly DEF BootFails, Statuses
  <1> QED BY <1>2, <1>3

LEMMA NoScopesStep == ASSUME IInv, NoScopes PROVE IInv'
  <1>0. faults' \in 0 .. MaxFaults
    BY DEF IInv, TypeOK, NoScopes
  <1>1. PICK C : C = Presence
    OBVIOUS
  <1>2. findings' = {Finding(c, 0, 0, "FAIL") : c \in C} /\ C # {}
    BY <1>1 DEF NoScopes
  <1> QED BY <1>0, <1>2, EndsEarly DEF NoScopes, Statuses

LEMMA EnterStep == ASSUME IInv, EnterScope PROVE IInv'
  <1>0. /\ start \in Starts /\ start.scopes \in Nat /\ scope \in 1 .. start.scopes /\ scope \in Nat
        /\ local = {} /\ Len(Table[Kind]) \in Nat
        /\ 0 \in 0 .. Len(Table[Kind])
        /\ Kind' = Kind
    BY AuditAssumption, Kinds, Fixed DEF IInv, TypeOK, StageInv, LocalInv, EnterScope, Kind
  <1>1. PICK n : n = NextCheck(0)
    OBVIOUS
  <1>2. n \in 1 .. Len(Table[Kind]) + 1 /\ \A j \in 1 .. n - 1 : Asked(Table[Kind][j]) = {}
    <2>1. n \in 0 + 1 .. Len(Table[Kind]) + 1 /\ \A j \in 0 + 1 .. n - 1 : Asked(Table[Kind][j]) = {}
      BY <1>0, <1>1, NextCheckIs, Zenon
    <2>2. n \in Nat /\ n \in 1 .. Len(Table[Kind]) + 1
      BY <1>0, <2>1
    <2>3. ASSUME NEW j \in 1 .. n - 1 PROVE Asked(Table[Kind][j]) = {}
      <3>1. j \in 0 + 1 .. n - 1
        BY <2>2
      <3> QED BY <2>1, <3>1
    <2> QED BY <2>2, <2>3
  <1>3. at' = n /\ pc' = "idle" /\ UNCHANGED <<start, scope, check, findings, faults, broken>>
    BY <1>1 DEF EnterScope
  <1>4. ASSUME NEW f \in local'
        PROVE  Formed(f) /\ f.scope = scope /\ f.planned = FALSE
    <2>1. PICK c : f = Finding(c, scope, 0, "PASS")
      BY <1>4 DEF EnterScope
    <2> QED BY <1>0, <2>1 DEF Formed, Finding, Statuses
  <1>5. Found' = findings \cup local'
    BY <1>3 DEF Found
  <1>6. TypeOK'
    <2>1. ASSUME NEW f \in Found'
          PROVE  /\ f.scope \in 0 .. start.scopes
                 /\ f.item \in Items \cup {0}
                 /\ f.status \in Statuses
                 /\ f.planned => f.status = "FAIL" /\ start.mode = "plan"
      <3>1. CASE f \in findings
        BY <3>1 DEF IInv, TypeOK, Found
      <3>2. CASE f \in local'
        <4>1. Formed(f) /\ f.scope = scope /\ f.planned = FALSE
          BY <1>4, <3>2
        <4> QED BY <1>0, <4>1 DEF Formed
      <3> QED BY <1>5, <3>1, <3>2
    <2> QED BY <1>0, <1>3, <2>1 DEF IInv, TypeOK, check
  <1>7. StageInv'
    BY <1>0, <1>2, <1>3 DEF IInv, StageInv, check
  <1>8. LocalInv' /\ DiscardInv' /\ Answered'
    BY <1>3, <1>4, <1>5 DEF IInv, LocalInv, DiscardInv, Discards, Answered, Found, EnterScope
  <1>9. ProgressInv'
    <2>1. \A s \in 1 .. scope - 1 : ScopeAnswered(s, findings)
      BY DEF IInv, ProgressInv, EnterScope
    <2>2. \A s \in 1 .. scope - 1 : ScopeAnswered(s, findings)'
      BY <1>3, <2>1, StillAnswered
    <2>3. \A j \in 1 .. at' - 1 : RowAnswered(Table[Kind][j], scope, local)'
      BY <1>0, <1>2, <1>3 DEF RowAnswered, Asked, Selected
    <2> QED BY <1>3, <2>2, <2>3, <1>0 DEF ProgressInv
  <1>10. ErrorsSurface'
    BY <1>0, <1>3, <1>5 DEF IInv, ErrorsSurface, Found, EnterScope
  <1> QED BY <1>6, <1>7, <1>8, <1>9, <1>10 DEF IInv

LEMMA EscapesStep == ASSUME IInv, Escapes PROVE IInv'
  <1>0. /\ start \in Starts /\ start.scopes \in Nat /\ scope \in 1 .. start.scopes /\ scope \in Nat
        /\ UNCHANGED <<start, at, check, broken>> /\ local' = {} /\ faults' \in 0 .. MaxFaults
    BY AuditAssumption DEF IInv, TypeOK, StageInv, Escapes
  <1>1. CASE Member
    <2>1. PICK f : f = Finding("AWS-ORG-001", scope, 0, "ERROR")
      OBVIOUS
    <2>2. findings' = findings \cup {f} /\ pc' = "scope" /\ scope' = scope + 1
      BY <1>1, <2>1 DEF Escapes
    <2>3. /\ Formed(f) /\ f.planned = FALSE /\ f.scope = scope
          /\ f.status = "ERROR" /\ f.control = "AWS-ORG-001"
      BY <1>0, <2>1 DEF Finding, Formed, Statuses
    <2>4. Found' = findings \cup {f}
      BY <1>0, <2>2 DEF Found
    <2>5. TypeOK'
      <3>1. ASSUME NEW g \in Found'
            PROVE  /\ g.scope \in 0 .. start.scopes
                   /\ g.item \in Items \cup {0}
                   /\ g.status \in Statuses
                   /\ g.planned => g.status = "FAIL" /\ start.mode = "plan"
        <4>1. CASE g \in findings
          BY <4>1 DEF IInv, TypeOK, Found
        <4>2. CASE g = f
          BY <1>0, <2>3, <4>2 DEF Formed
        <4> QED BY <2>4, <4>1, <4>2
      <3>2. scope' \in 0 .. start.scopes + 1
        BY <1>0, <2>2
      <3> QED BY <1>0, <2>2, <3>1, <3>2 DEF IInv, TypeOK, check
    <2>6. StageInv'
      BY <1>0, <2>2 DEF IInv, StageInv, check
    <2>7. LocalInv'
      BY <1>0, <2>3, <2>4 DEF IInv, LocalInv, Found
    <2>8. DiscardInv' /\ Answered'
      BY <1>0, <2>2 DEF IInv, DiscardInv, Discards, Answered, Escapes
    <2>9. ProgressInv'
      <3>1. ASSUME NEW s \in 1 .. scope' - 1 PROVE ScopeAnswered(s, findings)'
        <4>1. CASE s = scope
          BY <2>2, <2>3, <4>1 DEF ScopeAnswered
        <4>2. CASE s # scope
          <5>1. s \in 1 .. scope - 1
            BY <1>0, <2>2, <4>2
          <5>2. ScopeAnswered(s, findings)
            BY <5>1 DEF IInv, ProgressInv, Escapes
          <5> QED BY <1>0, <2>2, <5>2, StillAnswered
        <4> QED BY <4>1, <4>2
      <3> QED BY <2>2, <3>1 DEF ProgressInv
    <2>10. ErrorsSurface'
      <3>1. ASSUME NEW b \in broken PROVE \E g \in Found' : Covers(g, b)
        <4>1. PICK g \in Found : Covers(g, b)
          BY <1>0 DEF IInv, ErrorsSurface, Covers, Escapes
        <4>2. CASE g \in findings
          BY <2>4, <4>1, <4>2
        <4>3. CASE g \in local
          <5>1. Covers(f, b)
            BY <2>3, <4>1, <4>3 DEF IInv, LocalInv, Covers
          <5> QED BY <2>4, <5>1
        <4> QED BY <4>2, <4>3 DEF Found
      <3> QED BY <1>0, <3>1 DEF ErrorsSurface, Covers
    <2> QED BY <2>5, <2>6, <2>7, <2>8, <2>9, <2>10 DEF IInv
  <1>2. CASE ~Member
    <2>1. pc' = "raised" /\ UNCHANGED <<findings, scope>>
      BY <1>2 DEF Escapes
    <2>2. Found' \subseteq Found
      BY <1>0, <2>1 DEF Found
    <2>3. TypeOK'
      BY <1>0, <2>1, <2>2 DEF IInv, TypeOK, check
    <2>4. StageInv' /\ LocalInv'
      BY <1>0, <2>1, <2>2 DEF IInv, StageInv, LocalInv, check
    <2>5. DiscardInv' /\ ProgressInv' /\ Answered' /\ ErrorsSurface'
      BY <1>0, <2>1 DEF IInv, DiscardInv, Discards, ProgressInv, Answered, ErrorsSurface, Escapes
    <2> QED BY <2>3, <2>4, <2>5 DEF IInv
  <1> QED BY <1>1, <1>2

LEMMA LeaveStep == ASSUME IInv, LeaveScope PROVE IInv'
  <1>0. /\ start \in Starts /\ start.scopes \in Nat /\ scope \in 1 .. start.scopes /\ scope \in Nat
        /\ UNCHANGED <<start, at, check, faults, broken>> /\ local' = {}
        /\ findings' = findings \cup local /\ scope' = scope + 1 /\ pc' = "scope"
        /\ Found' = Found
    BY AuditAssumption DEF IInv, TypeOK, StageInv, LeaveScope, Found
  <1>1. TypeOK'
    <2>1. scope' \in 0 .. start.scopes + 1
      BY <1>0
    <2> QED BY <1>0, <2>1 DEF IInv, TypeOK, check
  <1>2. StageInv' /\ LocalInv'
    BY <1>0 DEF IInv, StageInv, LocalInv, check
  <1>3. DiscardInv' /\ Answered' /\ ErrorsSurface'
    BY <1>0 DEF IInv, DiscardInv, Discards, Answered, ErrorsSurface, LeaveScope
  <1>4. ASSUME NEW s, s = scope PROVE ScopeAnswered(s, findings)'
    <2>1. /\ DOMAIN Table[Kind] = 1 .. Len(Table[Kind]) /\ Len(Table[Kind]) \in Nat
          /\ at \in 1 .. Len(Table[Kind]) + 1 /\ at > Len(Table[Kind])
      BY <1>0, Kinds DEF IInv, StageInv, LeaveScope, Kind
    <2>2. \A j \in 1 .. at - 1 : RowAnswered(Table[Kind][j], scope, local)
      BY DEF IInv, ProgressInv, LeaveScope
    <2>3. \A j \in DOMAIN Table[Kind] : RowAnswered(Table[Kind][j], scope, local)
      BY <2>1, <2>2
    <2>4. \A j \in DOMAIN Table[KindOf(s)] : RowAnswered(Table[KindOf(s)][j], s, findings \cup local)
      BY <1>4, <2>3 DEF RowAnswered, Kind
    <2>5. KindOf(s)' = KindOf(s)
      BY <1>0, Fixed
    <2> QED BY <1>0, <2>4, <2>5 DEF ScopeAnswered, RowAnswered, Asked, Selected
  <1>5. ProgressInv'
    <2>1. ASSUME NEW s \in 1 .. scope' - 1 PROVE ScopeAnswered(s, findings)'
      <3>1. CASE s = scope
        BY <1>4, <3>1
      <3>2. CASE s # scope
        <4>1. s \in 1 .. scope - 1
          BY <1>0, <3>2
        <4>2. ScopeAnswered(s, findings)
          BY <4>1 DEF IInv, ProgressInv, LeaveScope
        <4> QED BY <1>0, <4>2, StillAnswered
      <3> QED BY <3>1, <3>2
    <2> QED BY <1>0, <2>1 DEF ProgressInv
  <1> QED BY <1>1, <1>2, <1>3, <1>5 DEF IInv

\* A planned change is written beside its finding, which stays the same.
LEMMA AnnotatedIs ==
    ASSUME NEW STATE fs, \A f \in fs : Formed(f)
    PROVE  /\ \A f \in fs : \E g \in Annotated(fs) :
                 [g EXCEPT !.planned = FALSE] = [f EXCEPT !.planned = FALSE]
           /\ \A f \in fs : \E g \in Annotated(fs) :
                 g.control = f.control /\ g.scope = f.scope /\ g.status = f.status
           /\ \A g \in Annotated(fs) : /\ Formed(g)
                 /\ \E f \in fs : /\ g.control = f.control /\ g.scope = f.scope
                                  /\ g.item = f.item /\ g.status = f.status
                                  /\ g.planned => f.planned \/ (g.status = "FAIL" /\ start.mode = "plan")
  <1> DEFINE Marked(f) == IF f.status = "FAIL" THEN [f EXCEPT !.planned = TRUE] ELSE f
  <1>1. ASSUME NEW f \in fs
        PROVE  /\ Formed(Marked(f))
               /\ [Marked(f) EXCEPT !.planned = FALSE] = [f EXCEPT !.planned = FALSE]
               /\ Marked(f).control = f.control /\ Marked(f).scope = f.scope
               /\ Marked(f).item = f.item /\ Marked(f).status = f.status
               /\ Marked(f).planned => f.planned \/ Marked(f).status = "FAIL"
    <2>1. CASE f.status = "FAIL"
      <3>0. PICK c, s, i, st, p :
               f = [control |-> c, scope |-> s, item |-> i, status |-> st, planned |-> p]
        BY <1>1 DEF Formed
      <3>1. PICK g : g = [control |-> c, scope |-> s, item |-> i, status |-> st, planned |-> TRUE]
        OBVIOUS
      <3>2. g = Marked(f)
        BY <2>1, <3>0, <3>1
      <3>3. /\ Formed(g) /\ g.control = f.control /\ g.scope = f.scope
            /\ g.item = f.item /\ g.status = f.status
        BY <1>1, <3>0, <3>1 DEF Formed
      <3>4. [g EXCEPT !.planned = FALSE] = [f EXCEPT !.planned = FALSE]
        <4>1. PICK q : q = FALSE
          OBVIOUS
        <4> DEFINE plain == [control |-> c, scope |-> s, item |-> i, status |-> st, planned |-> q]
        <4>2. [g EXCEPT !.planned = q] = plain
          BY <3>1
        <4>3. [f EXCEPT !.planned = q] = plain
          BY <3>0
        <4> QED BY <4>1, <4>2, <4>3, Zenon
      <3> HIDE DEF Marked
      <3> QED BY <2>1, <3>2, <3>3, <3>4
    <2>2. CASE f.status # "FAIL"
      BY <1>1, <2>2 DEF Formed
    <2> QED BY <2>1, <2>2
  <1>2. Annotated(fs) = fs \/ (start.mode = "plan" /\ Annotated(fs) = {Marked(f) : f \in fs})
    BY DEF Annotated
  <1>3. CASE Annotated(fs) = fs
    BY <1>3
  <1>4. CASE start.mode = "plan" /\ Annotated(fs) = {Marked(f) : f \in fs}
    <2>1. \A f \in fs : Marked(f) \in Annotated(fs)
      BY <1>4
    <2>2. \A g \in Annotated(fs) : \E f \in fs : g = Marked(f)
      BY <1>4
    <2> HIDE DEF Marked
    <2>3. \A f \in fs : \E g \in Annotated(fs) :
              [g EXCEPT !.planned = FALSE] = [f EXCEPT !.planned = FALSE]
      BY <1>1, <2>1
    <2>4. \A f \in fs : \E g \in Annotated(fs) :
              g.control = f.control /\ g.scope = f.scope /\ g.status = f.status
      BY <1>1, <2>1
    <2>5. ASSUME NEW g \in Annotated(fs)
          PROVE  /\ Formed(g)
                 /\ \E f \in fs : /\ g.control = f.control /\ g.scope = f.scope
                                  /\ g.item = f.item /\ g.status = f.status
                                  /\ g.planned => f.planned \/ (g.status = "FAIL" /\ start.mode = "plan")
      <3>1. PICK f \in fs : g = Marked(f)
        BY <2>2
      <3> QED BY <1>1, <1>4, <3>1
    <2> QED BY <2>3, <2>4, <2>5
  <1> QED BY <1>2, <1>3, <1>4

LEMMA FinishStep == ASSUME IInv, Finish PROVE IInv'
  <1>0. /\ start \in Starts /\ start.scopes \in Nat /\ local = {}
        /\ UNCHANGED <<start, scope, at, check, local, faults, broken>> /\ pc' = "done"
        /\ findings' = Annotated(findings)
        /\ scope \in 1 .. start.scopes + 1 /\ scope > start.scopes
    BY AuditAssumption DEF IInv, TypeOK, StageInv, LocalInv, Finish
  <1>1. \A f \in findings : Formed(f)
    BY DEF IInv, LocalInv, Found
  <1>2. /\ \A f \in findings : \E g \in findings' :
               g.control = f.control /\ g.scope = f.scope /\ g.status = f.status
        /\ \A g \in findings' : /\ Formed(g)
               /\ \E f \in findings : /\ g.control = f.control /\ g.scope = f.scope
                                      /\ g.item = f.item /\ g.status = f.status
                                      /\ g.planned => f.planned \/ (g.status = "FAIL" /\ start.mode = "plan")
    BY <1>0, <1>1, AnnotatedIs
  <1>3. Found = findings /\ Found' = findings'
    BY <1>0 DEF Found
  <1>4. TypeOK'
    <2>1. ASSUME NEW g \in Found'
          PROVE  /\ g.scope \in 0 .. start.scopes
                 /\ g.item \in Items \cup {0}
                 /\ g.status \in Statuses
                 /\ g.planned => g.status = "FAIL" /\ start.mode = "plan"
      <3>1. PICK f \in findings :
                /\ g.control = f.control /\ g.scope = f.scope /\ g.item = f.item /\ g.status = f.status
                /\ g.planned => f.planned \/ (g.status = "FAIL" /\ start.mode = "plan")
        BY <1>2, <1>3
      <3>2. /\ f.scope \in 0 .. start.scopes
            /\ f.item \in Items \cup {0}
            /\ f.status \in Statuses
            /\ f.planned => f.status = "FAIL" /\ start.mode = "plan"
        BY <1>3 DEF IInv, TypeOK
      <3> QED BY <3>1, <3>2
    <2> QED BY <1>0, <2>1 DEF IInv, TypeOK, check
  <1>5. StageInv' /\ LocalInv' /\ DiscardInv' /\ ProgressInv'
    BY <1>0, <1>2, <1>3 DEF IInv, StageInv, LocalInv, DiscardInv, ProgressInv, check
  <1>6. Answered'
    <2>1. ASSUME NEW s \in 1 .. start.scopes
          PROVE  \/ \E f \in findings' : f.scope = s /\ f.control = "AWS-ORG-001"
                 \/ \A j \in DOMAIN Table[KindOf(s)] : RowAnswered(Table[KindOf(s)][j], s, findings')
      <3>1. s \in 1 .. scope - 1
        BY <1>0
      <3>2. ScopeAnswered(s, findings)
        BY <3>1 DEF IInv, ProgressInv, Finish
      <3>3. CASE \E f \in findings : f.scope = s /\ f.control = "AWS-ORG-001"
        BY <1>2, <3>3
      <3>4. CASE \A j \in DOMAIN Table[KindOf(s)] : RowAnswered(Table[KindOf(s)][j], s, findings)
        <4>1. ASSUME NEW j \in DOMAIN Table[KindOf(s)]
              PROVE  RowAnswered(Table[KindOf(s)][j], s, findings')
          <5>1. RowAnswered(Table[KindOf(s)][j], s, findings)
            BY <3>4
          <5>2. ASSUME NEW c, NEW f \in findings, f.scope = s, f.control = c
                PROVE  \E g \in findings' : g.scope = s /\ g.control = c
            BY <1>2, <5>2
          <5> QED BY <5>1, <5>2 DEF RowAnswered
        <4> QED BY <4>1
      <3> QED BY <3>2, <3>3, <3>4 DEF ScopeAnswered
    <2>2. \A s : KindOf(s)' = KindOf(s)
      BY <1>0, Fixed
    <2>3. \A row : Asked(row)' = Asked(row)
      BY <1>0, Fixed
    <2> QED BY <1>0, <2>1, <2>2, <2>3 DEF Answered, RowAnswered
  <1>7. ErrorsSurface'
    <2>1. ASSUME NEW b \in broken PROVE \E g \in Found' : Covers(g, b)
      <3>1. PICK f \in findings : Covers(f, b)
        BY <1>3 DEF IInv, ErrorsSurface, Covers, Finish
      <3> QED BY <1>2, <1>3, <3>1 DEF Covers
    <2> QED BY <1>0, <2>1 DEF ErrorsSurface, Covers
  <1> QED BY <1>4, <1>5, <1>6, <1>7 DEF IInv

LEMMA InvStep == IInv /\ [Next]_vars => IInv'
  <1> SUFFICES ASSUME IInv, [Next]_vars PROVE IInv'
    OBVIOUS
  <1>1. CASE Boot \/ BootFails \/ NoScopes \/ EnterScope
    BY <1>1, BootStep, BootFailsStep, NoScopesStep, EnterStep
  <1>2. CASE Begin \/ Close \/ ListFails \/ OutdatedSdk
    BY <1>2, BeginStep, CloseStep, ListFailsStep, OutdatedStep
  <1>3. ASSUME NEW i \in Items, Read(i) \/ Fails(i) \/ LimiterRaises(i) \/ Change(i) PROVE IInv'
    BY <1>3, ReadStep, FailsStep, LimiterStep, ChangeStep
  <1>4. CASE Escapes \/ LeaveScope \/ Finish
    BY <1>4, EscapesStep, LeaveStep, FinishStep
  <1>5. CASE UNCHANGED vars
    <2>1. TypeOK' /\ StageInv' /\ LocalInv' /\ DiscardInv'
      BY <1>5 DEF vars, IInv, TypeOK, StageInv, LocalInv, DiscardInv, Discards, Found, Kind, KindOf
    <2>2. ErrorsSurface'
      BY <1>5 DEF vars, IInv, ErrorsSurface, Found
    <2>3. Answered'
      BY <1>5 DEF vars, IInv, Answered, Asked, Selected, KindOf
    <2>4. ProgressInv'
      <3>1. \A s : ScopeAnswered(s, findings) => ScopeAnswered(s, findings)'
        BY <1>5, StillAnswered DEF vars
      <3>2. Kind' = Kind
        BY <1>5, Fixed DEF vars
      <3>3. pc \in {"idle", "check"} =>
                \A j \in 1 .. at' - 1 : RowAnswered(Table[Kind][j], scope, local)'
        BY <1>5, <3>2 DEF vars, IInv, ProgressInv, RowAnswered, Asked, Selected
      <3> QED BY <1>5, <3>1, <3>3 DEF vars, IInv, ProgressInv
    <2> QED BY <2>1, <2>2, <2>3, <2>4 DEF IInv
  <1> QED BY <1>1, <1>2, <1>3, <1>4, <1>5 DEF Next

LEMMA InvHolds == Spec => []IInv
  BY InitInv, InvStep, PTL DEF Spec
-----------------------------------------------------------------------------
\* The audit keeps its types; findings name scopes of the call, and only a
\* failure found in plan mode is a planned change.
THEOREM TypeCorrect == Spec => []TypeOK
  <1>1. IInv => TypeOK
    BY DEF IInv
  <1> QED BY <1>1, InvHolds, PTL

\* An audit that ends has answered every selected control in every scope, or
\* says that it could not start or could not assess the account.
THEOREM AnsweredHolds == Spec => []Answered
  <1>1. IInv => Answered
    BY DEF IInv
  <1> QED BY <1>1, InvHolds, PTL

\* However many calls fail, and wherever: a check whose calls failed has an
\* ERROR or MANUAL finding for each of its controls.
THEOREM ErrorsSurfaceHolds == Spec => []ErrorsSurface
  <1>1. IInv => ErrorsSurface
    BY DEF IInv
  <1> QED BY <1>1, InvHolds, PTL
-----------------------------------------------------------------------------
\* The findings of the things before the one that cannot be read are those
\* that Reported names.
LEMMA ReportedIs ==
    ASSUME IInv, NEW i \in Items, Fails(i), Current.verdict = "each", Current.onError = "ERROR"
    PROVE  Reported \subseteq OnFailure(Current, seen, i)
  <1>0. /\ at \in 1 .. Len(Table[Kind]) /\ start \in Starts /\ pc = "check" /\ i \in todo /\ Due(i)
    BY Kinds DEF IInv, TypeOK, StageInv, Fails, Kind, Due
  <1>1. i = Min(todo)
    BY <1>0, Rows DEF Due
  <1>2. PICK m : m = Min(todo)
    OBVIOUS
  <1>3. {j \in DOMAIN seen : todo = {} \/ j < m} = {j \in DOMAIN seen : j < i}
    BY <1>0, <1>1, <1>2
  <1>4. Reported = Verdicts(Current, Restrict(seen, {j \in DOMAIN seen : todo = {} \/ j < m}))
    BY <1>0, <1>2, Zenon DEF Reported
  <1>5. Reported = Verdicts(Current, Restrict(seen, {j \in DOMAIN seen : j < i}))
    BY <1>3, <1>4, Zenon
  <1> QED BY <1>5 DEF OnFailure

LEMMA StaysStep ==
    ASSUME IInv, Next, pc' \notin {"raised", "check"}, NEW f \in Found \cup Reported
    PROVE  \/ \E g \in local' \cup findings' :
                 [g EXCEPT !.planned = FALSE] = [f EXCEPT !.planned = FALSE]
           \/ Finding("AWS-ORG-001", f.scope, 0, "ERROR") \in findings'
           \/ findings' = {Finding("TF-SEC-001", scope, 0, "ERROR")}
  <1> DEFINE Stays == \/ \E g \in local' \cup findings' :
                            [g EXCEPT !.planned = FALSE] = [f EXCEPT !.planned = FALSE]
                      \/ Finding("AWS-ORG-001", f.scope, 0, "ERROR") \in findings'
                      \/ findings' = {Finding("TF-SEC-001", scope, 0, "ERROR")}
  <1>1. f \in local' \cup findings' => Stays
    OBVIOUS
  <1>2. pc # "check" => f \in local \cup findings
    BY DEF Found, Reported
  <1> SUFFICES Stays
    OBVIOUS
  <1> HIDE DEF Stays
  <1>3. CASE Boot \/ BootFails \/ NoScopes \/ EnterScope \/ ListFails \/ OutdatedSdk \/ LeaveScope
    <2>1. pc # "check" /\ pc = "start" => local = {} /\ findings = {}
      BY <1>3 DEF IInv, StageInv, LocalInv
    <2>2. pc = "scope" => local = {}
      BY DEF IInv, LocalInv
    <2>3. CASE Boot \/ BootFails \/ NoScopes
      BY <1>2, <2>1, <2>3 DEF Boot, BootFails, NoScopes
    <2>4. CASE EnterScope
      BY <1>1, <1>2, <2>2, <2>4 DEF EnterScope
    <2>5. CASE ListFails
      BY <1>1, <1>2, <2>5 DEF ListFails, Advance
    <2>6. CASE OutdatedSdk
      BY <1>1, <1>2, <2>6 DEF OutdatedSdk, Advance
    <2>7. CASE LeaveScope
      BY <1>1, <1>2, <2>7 DEF LeaveScope
    <2> QED BY <1>3, <2>3, <2>4, <2>5, <2>6, <2>7
  <1>4. CASE Close
    <2>1. local' = local \cup Verdicts(Current, seen) /\ findings' = findings /\ todo = {} /\ pc = "check"
      BY <1>4 DEF Close, Advance
    <2>2. Reported \subseteq Verdicts(Current, seen)
      <3>1. PICK m : m = Min(todo)
        OBVIOUS
      <3>2. Restrict(seen, {i \in DOMAIN seen : todo = {} \/ i < m}) = seen
        BY <2>1 DEF IInv, StageInv, Restrict
      <3>3. \/ Reported = {}
            \/ Reported = Verdicts(Current, Restrict(seen, {i \in DOMAIN seen : todo = {} \/ i < m}))
        BY <3>1, Zenon DEF Reported
      <3> QED BY <3>2, <3>3, Zenon
    <2> QED BY <1>1, <2>1, <2>2 DEF Found
  <1>5. ASSUME NEW i \in Items, Fails(i) PROVE Stays
    <2>0. /\ at \in 1 .. Len(Table[Kind]) /\ start \in Starts /\ pc = "check" /\ HandleFailure(i)
      BY Kinds, <1>5 DEF IInv, TypeOK, StageInv, Fails, Kind
    <2>1. Current.onError \in {"ERROR", "MANUAL", "silent", "item", "discard"}
      BY <2>0, Rows
    <2>2. CASE Current.onError \in {"silent", "item"}
      BY <2>0, <2>2 DEF HandleFailure
    <2>3. CASE Current.onError = "discard"
      BY <2>0, <2>3 DEF HandleFailure, Stays
    <2>4. CASE Current.onError \in {"ERROR", "MANUAL"}
      <3>1. local' = local \cup OnFailure(Current, seen, i) /\ findings' = findings
        BY <2>0, <2>4 DEF HandleFailure, Advance
      <3>2. Reported \subseteq OnFailure(Current, seen, i)
        <4>1. CASE Current.verdict = "each" /\ Current.onError = "ERROR"
          BY <1>5, <4>1, ReportedIs
        <4>2. CASE ~(Current.verdict = "each" /\ Current.onError = "ERROR")
          BY <4>2 DEF Reported
        <4> QED BY <4>1, <4>2
      <3> QED BY <1>1, <3>1, <3>2 DEF Found
    <2> QED BY <2>1, <2>2, <2>3, <2>4
  <1>6. CASE Escapes
    <2>1. /\ findings' = findings \cup {Finding("AWS-ORG-001", scope, 0, "ERROR")}
          /\ f \in local \cup findings
      BY <1>2, <1>6 DEF Escapes
    <2>2. f \in local => f.scope = scope
      BY DEF IInv, LocalInv
    <2>3. f \in local => Finding("AWS-ORG-001", f.scope, 0, "ERROR") \in findings'
      BY <2>1, <2>2
    <2> QED BY <1>1, <2>1, <2>3 DEF Stays
  <1>7. CASE Finish
    <2>1. local = {} /\ findings' = Annotated(findings) /\ f \in findings
      BY <1>2, <1>7 DEF IInv, LocalInv, Finish
    <2>2. \A g \in findings : Formed(g)
      BY DEF IInv, LocalInv, Found
    <2>3. \E g \in findings' : [g EXCEPT !.planned = FALSE] = [f EXCEPT !.planned = FALSE]
      <3>1. \A h \in findings : \E g \in Annotated(findings) :
                [g EXCEPT !.planned = FALSE] = [h EXCEPT !.planned = FALSE]
        BY <2>2, AnnotatedIs, Zenon
      <3> QED BY <2>1, <3>1, Zenon
    <2> QED BY <2>3 DEF Stays
  <1>8. ASSUME NEW i \in Items, Read(i) \/ LimiterRaises(i) \/ Change(i) PROVE FALSE
    BY <1>8 DEF Read, LimiterRaises, Change
  <1>9. CASE Begin
    BY <1>9 DEF Begin
  <1>10. CASE \E i \in Items : Read(i) \/ Fails(i) \/ LimiterRaises(i) \/ Change(i)
    BY <1>5, <1>8, <1>10
  <1> QED BY <1>3, <1>4, <1>6, <1>7, <1>9, <1>10 DEF Next

\* What has been found stays found, whatever fails later, except for what a
\* member account and a malformed plan lose; and those are named.
THEOREM FoundStaysHolds == Spec => FoundStays
  <1> DEFINE Kept == pc' \notin {"raised", "check"} =>
                 \A f \in Found \cup Reported :
                    \/ \E g \in local' \cup findings' :
                          [g EXCEPT !.planned = FALSE] = [f EXCEPT !.planned = FALSE]
                    \/ Finding("AWS-ORG-001", f.scope, 0, "ERROR") \in findings'
                    \/ findings' = {Finding("TF-SEC-001", scope, 0, "ERROR")}
  <1>1. IInv /\ [Next]_vars => [Kept]_vars
    BY StaysStep
  <1>2. Spec => [][Kept]_vars
    BY <1>1, InvHolds, PTL DEF Spec
  <1> QED BY <1>2 DEF FoundStays
-----------------------------------------------------------------------------
JInv == WorldInv /\ ReadInv /\ FreshInv

LEMMA InCheck ==
    ASSUME IInv, pc = "check" \/ (pc = "idle" /\ at <= Len(Table[Kind]))
    PROVE  /\ at \in 1 .. Len(Table[Kind]) /\ at \in Nat /\ Len(Table[Kind]) \in Nat
           /\ start \in Starts /\ start.scopes \in Nat
           /\ scope \in 1 .. start.scopes /\ scope \in Nat
           /\ Current \in ToSet(Table[Kind]) /\ SoundRow(Current)
           /\ DOMAIN seen \subseteq Items /\ todo \subseteq Items
           /\ DOMAIN Table[Kind] = 1 .. Len(Table[Kind])
  <1>1. /\ at \in 1 .. Len(Table[Kind]) /\ at \in Nat /\ Len(Table[Kind]) \in Nat
        /\ start \in Starts /\ start.scopes \in Nat
        /\ scope \in 1 .. start.scopes /\ scope \in Nat
        /\ DOMAIN seen \subseteq Items /\ todo \subseteq Items
        /\ DOMAIN Table[Kind] = 1 .. Len(Table[Kind])
    BY Kinds, AuditAssumption DEF IInv, TypeOK, StageInv, Kind
  <1> QED BY <1>1, Rows

LEMMA SameCheck ==
    ASSUME UNCHANGED <<start, scope, at>>
    PROVE  Kind' = Kind /\ Current' = Current /\ \A row : Asked(row)' = Asked(row)
  BY Fixed DEF Current

\* What has been read of a thing, or excuses that it was not, stays so.
LEMMA Stays ==
    ASSUME UNCHANGED <<start, scope, at>>, local \subseteq local',
           faults \in Nat, faults' \in Nat, faults <= faults',
           NEW i, Ever(i) \subseteq Ever(i)', was'[i] # <<>>, was'[i][1] = was[i][1]
    PROVE  /\ Excused(i) => Excused(i)'
           /\ Taken(i) /\ seen'[i] = seen[i] => Taken(i)'
  <1>0. Current' = Current /\ \A row : Asked(row)' = Asked(row)
    BY SameCheck
  <1>1. ASSUME NEW c, Failed(c, i) PROVE Failed(c, i)'
    BY <1>1 DEF Failed
  <1>2. Overlooked(i) => Overlooked(i)'
    BY <1>0 DEF Overlooked
  <1>3. ASSUME Excused(i) PROVE Excused(i)'
    <2>1. CASE Absent \in Ever(i)
      BY <2>1 DEF Excused
    <2>2. CASE Current.reads = "join" /\ was[i][1] \in Current.skip
      BY <1>0, <2>2 DEF Excused
    <2>3. CASE Current.onError = "item" /\ \A c \in Asked(Current) : Failed(c, i)
      BY <1>0, <1>1, <2>3 DEF Excused
    <2>4. CASE Overlooked(i)
      BY <1>2, <2>4 DEF Excused
    <2>5. CASE Current.garbles # "no"
      BY <1>0, <2>5 DEF Excused
    <2> QED BY <1>3, <2>1, <2>2, <2>3, <2>4, <2>5 DEF Excused
  <1>4. ASSUME Taken(i), seen'[i] = seen[i] PROVE Taken(i)'
    <2>1. Deleted(i) => Deleted(i)'
      BY <1>0 DEF Deleted
    <2> QED BY <1>0, <1>4, <2>1 DEF Taken
  <1> QED BY <1>3, <1>4

LEMMA BeginReads == ASSUME IInv, Begin PROVE WorldInv' /\ ReadInv'
  <1>0. /\ UNCHANGED <<start, scope, at, local, faults>> /\ pc' = "check"
        /\ world' \in [Items -> Current.shapes \cup {Absent}]
        /\ was' = [i \in Items |-> <<world'[i]>>]
    BY DEF Begin
  <1>1. SoundRow(Current)
    BY InCheck DEF Begin
  <1>2. Current' = Current
    BY <1>0, SameCheck
  <1>3. ASSUME NEW i \in Items
        PROVE  /\ was'[i] \in Seq(Current.shapes \cup {Absent}) /\ was'[i] # <<>>
               /\ was'[i][1] = world'[i] /\ Ever(i)' = {world'[i]}
    <2>1. world'[i] \in Current.shapes \cup {Absent} /\ was'[i] = <<world'[i]>>
      BY <1>0
    <2>2. DOMAIN was'[i] = {1} /\ was'[i][1] = world'[i]
      BY <2>1
    <2> QED BY <2>1, <2>2 DEF Ever
  <1>4. WorldInv'
    BY <1>0, <1>2, <1>3 DEF WorldInv
  <1>5. \A i \in Items : world'[i] = Absent => Excused(i)'
    BY <1>3 DEF Excused
  <1>6. ReadInv'
    <2>1. CASE Current.reads = "list"
      <3>1. PICK A \in SUBSET Items, B \in SUBSET Items :
                /\ listing' = Restrict(world', A) /\ todo' = A /\ seen' = Restrict(world', B)
                /\ \A i \in A \cup B : world'[i] # Absent
                /\ Current.garbles = "no" => \A i \in Items : i \in A \cup B <=> world'[i] # Absent
        <4>1. PICK A : A = {i \in Items : /\ world'[i] # Absent /\ world'[i] \in Current.calls
                                          /\ \E c \in Current.callsFor : Selected(c)}
          OBVIOUS
        <4>2. PICK C : C = {i \in Items : world'[i] # Absent} \ A
          OBVIOUS
        <4>3. listing' = Restrict(world', A) /\ todo' = A
              /\ \E lost \in Lost(Current, C) : seen' = Restrict(world', C \ lost)
          BY <2>1, <4>1, <4>2 DEF Begin
        <4>4. PICK lost \in Lost(Current, C) : seen' = Restrict(world', C \ lost)
          BY <4>3
        <4>5. PICK B : B = C \ lost
          OBVIOUS
        <4>6. A \in SUBSET Items /\ B \in SUBSET Items /\ \A i \in A \cup B : world'[i] # Absent
          BY <4>1, <4>2, <4>5
        <4>7. ASSUME Current.garbles = "no"
              PROVE  \A i \in Items : i \in A \cup B <=> world'[i] # Absent
          <5>1. lost = {}
            BY <4>4, <4>7 DEF Lost
          <5> QED BY <4>1, <4>2, <4>5, <5>1
        <4>8. seen' = Restrict(world', B)
          BY <4>4, <4>5
        <4> HIDE <4>1, <4>2, <4>5
        <4> QED BY <4>3, <4>6, <4>7, <4>8
      <3>2. /\ DOMAIN listing' = A /\ \A i \in A : listing'[i] = world'[i]
            /\ DOMAIN seen' = B /\ \A i \in B : seen'[i] = world'[i]
        BY <3>1 DEF Restrict
      <3>3. Current.fatal = {}
        BY <1>1, <2>1 DEF SoundRow
      <3>4. \A i \in todo' : i \in DOMAIN listing' /\ listing'[i] \in Ever(i)' \ {Absent}
        BY <1>3, <3>1, <3>2
      <3>5. \A i \in DOMAIN seen' : Taken(i)'
        BY <1>2, <1>3, <3>1, <3>2, <3>3 DEF Taken
      <3>6. \A i \in Items \ (todo' \cup DOMAIN seen') : Excused(i)'
        <4>1. CASE Current.garbles = "no"
          BY <1>5, <3>1, <3>2, <4>1
        <4>2. CASE Current.garbles # "no"
          BY <1>2, <4>2 DEF Excused
        <4> QED BY <4>1, <4>2
      <3> QED BY <1>2, <2>1, <3>4, <3>5, <3>6 DEF ReadInv
    <2>2. CASE Current.reads \in {"join", "tasks", "file"}
      <3>1. /\ todo' = {i \in Items : /\ world'[i] # Absent
                                      /\ Current.reads # "join" \/ world'[i] \notin Current.skip}
            /\ listing' = <<>> /\ seen' = <<>>
        BY <2>2 DEF Begin
      <3>2. \A i \in todo' : Current.reads = "join" => was'[i][1] # Absent /\ was'[i][1] \notin Current.skip
        BY <1>3, <3>1
      <3>3. \A i \in Items \ todo' : Excused(i)'
        BY <1>2, <1>3, <1>5, <3>1 DEF Excused
      <3> QED BY <1>2, <2>2, <3>1, <3>2, <3>3, Nothing DEF ReadInv
    <2>3. CASE Current.reads = "page"
      <3>1. todo' = Items /\ seen' = <<>>
        BY <2>3 DEF Begin
      <3> QED BY <1>2, <2>3, <3>1, Nothing DEF ReadInv
    <2> QED BY <1>1, <2>1, <2>2, <2>3 DEF SoundRow
  <1> QED BY <1>4, <1>6

LEMMA ReadReads == ASSUME IInv, JInv, NEW i \in Items, Read(i) PROVE WorldInv' /\ ReadInv'
  <1>0. /\ UNCHANGED <<start, scope, at, world, was, listing, local, faults>> /\ pc = "check" /\ pc' = "check"
        /\ i \in todo /\ faults \in Nat /\ SoundRow(Current) /\ todo \subseteq Items
    BY InCheck, AuditAssumption DEF Read, Due, IInv, TypeOK
  <1>1. Current' = Current
    BY <1>0, SameCheck
  <1>2. \A j : Ever(j)' = Ever(j)
    BY <1>0 DEF Ever
  <1>3. WorldInv'
    BY <1>0, <1>1, <1>2 DEF JInv, WorldInv
  <1>4. ASSUME NEW j \in Items
        PROVE  /\ Excused(j) => Excused(j)'
               /\ Taken(j) /\ seen'[j] = seen[j] => Taken(j)'
    <2>1. was'[j] # <<>> /\ was'[j][1] = was[j][1]
      BY <1>0 DEF JInv, WorldInv
    <2> QED BY <1>0, <1>2, <2>1, Stays
  <1>5. world[i] \in Ever(i)
    BY <1>0 DEF JInv, WorldInv
  <1> DEFINE OneRead ==
        /\ todo' = todo \ {i}
        /\ DOMAIN seen' = DOMAIN seen \/ DOMAIN seen' = DOMAIN seen \cup {i}
        /\ \A j \in DOMAIN seen' \ {i} : seen'[j] = seen[j]
        /\ i \in DOMAIN seen' => Taken(i)'
        /\ i \notin DOMAIN seen' => Excused(i)'
  <1>6. ASSUME OneRead, Current.reads # "join" PROVE ReadInv'
    <2>1. \A j \in todo' : Current.reads = "list" => j \in DOMAIN listing' /\ listing'[j] \in Ever(j)' \ {Absent}
      BY <1>0, <1>2, <1>6 DEF JInv, ReadInv
    <2>2. \A j \in DOMAIN seen' : Taken(j)'
      BY <1>0, <1>4, <1>6 DEF JInv, ReadInv, IInv, TypeOK
    <2>3. \A j \in Items \ (todo' \cup DOMAIN seen') : Excused(j)'
      BY <1>0, <1>4, <1>6 DEF JInv, ReadInv
    <2> QED BY <1>1, <1>6, <2>1, <2>2, <2>3 DEF ReadInv
  <1>7. CASE Current.reads = "list"
    <2>1. PICK t : t = Merged(i)
      OBVIOUS
    <2>2. world[i] # Absent /\ seen' = Noted(i, t) /\ todo' = todo \ {i}
      BY <1>7, <2>1 DEF Read
    <2>3. listing[i] \in Ever(i) \ {Absent}
      BY <1>0, <1>7 DEF JInv, ReadInv
    <2>4. DOMAIN seen' = DOMAIN seen \cup {i} /\ seen'[i] = t /\ \A j \in DOMAIN seen' \ {i} : seen'[j] = seen[j]
      BY <2>2 DEF Noted
    <2>5. Taken(i)'
      BY <1>1, <1>2, <1>5, <1>7, <2>1, <2>2, <2>3, <2>4 DEF Taken, Merged
    <2>6. OneRead
      BY <2>2, <2>4, <2>5
    <2> HIDE DEF OneRead
    <2> QED BY <1>3, <1>6, <1>7, <2>6
  <1>8. CASE Current.reads = "join"
    <2>1. seen' = Restrict(world, todo) /\ todo' = {} /\ DOMAIN seen = {}
      BY <1>0, <1>8 DEF Read, JInv, ReadInv
    <2>2. DOMAIN seen' = todo /\ \A j \in todo : seen'[j] = world[j]
      BY <2>1 DEF Restrict
    <2>3. ASSUME NEW j \in todo PROVE Taken(j)'
      <3>1. /\ j \in Items /\ world[j] \in Ever(j) /\ Current.fatal = {} /\ was[j] # <<>>
            /\ was[j][1] # Absent /\ was[j][1] \notin Current.skip
        BY <1>0, <1>8 DEF JInv, WorldInv, ReadInv, SoundRow
      <3>2. world[j] = Absent => Deleted(j)'
        BY <1>0, <1>1, <1>2, <3>1 DEF Deleted
      <3> QED BY <1>1, <1>2, <1>8, <2>2, <3>1, <3>2 DEF Taken
    <2>4. \A j \in Items \ (todo' \cup DOMAIN seen') : Excused(j)'
      BY <1>0, <1>4, <2>1, <2>2 DEF JInv, ReadInv
    <2>5. \A j \in DOMAIN seen' : Taken(j)'
      BY <2>2, <2>3
    <2> QED BY <1>3, <2>1, <2>4, <2>5 DEF ReadInv
  <1>9. CASE Current.reads \notin {"list", "join"}
    <2>1. /\ world[i] \notin Current.fatal /\ todo' = todo \ {i}
          /\ seen' = IF world[i] = Absent THEN seen ELSE Noted(i, world[i])
      BY <1>9 DEF Read
    <2>2. CASE world[i] = Absent
      <3>1. seen' = seen
        BY <2>1, <2>2
      <3>2. i \in DOMAIN seen' => Taken(i)'
        BY <1>0, <1>4, <3>1 DEF JInv, ReadInv
      <3>3. Excused(i)'
        BY <1>2, <1>5, <2>2 DEF Excused
      <3>4. OneRead
        BY <2>1, <3>1, <3>2, <3>3
      <3> HIDE DEF OneRead
      <3> QED BY <1>3, <1>6, <1>9, <3>4
    <2>3. CASE world[i] # Absent
      <3>1. /\ DOMAIN seen' = DOMAIN seen \cup {i} /\ seen'[i] = world[i]
            /\ \A j \in DOMAIN seen' \ {i} : seen'[j] = seen[j]
        BY <2>1, <2>3 DEF Noted
      <3>2. Taken(i)'
        BY <1>1, <1>2, <1>5, <2>1, <2>3, <3>1 DEF Taken
      <3>3. OneRead
        BY <2>1, <3>1, <3>2
      <3> HIDE DEF OneRead
      <3> QED BY <1>3, <1>6, <1>9, <3>3
    <2> QED BY <2>2, <2>3
  <1> QED BY <1>3, <1>7, <1>8, <1>9

LEMMA ChangeReads == ASSUME IInv, JInv, NEW i \in Items, Change(i) PROVE WorldInv' /\ ReadInv'
  <1>0. /\ UNCHANGED <<start, scope, at, listing, todo, seen, local, faults>> /\ pc = "check" /\ pc' = "check"
        /\ faults \in Nat /\ todo \subseteq Items /\ DOMAIN seen \subseteq Items
    BY InCheck, AuditAssumption DEF Change, IInv, TypeOK
  <1>1. Current' = Current
    BY <1>0, SameCheck
  <1>2. PICK new \in Current.shapes \cup {Absent} :
            /\ world' = [world EXCEPT ![i] = new]
            /\ was' = [was EXCEPT ![i] = Append(@, new)]
    BY DEF Change
  <1>3. /\ DOMAIN world = Items /\ DOMAIN was = Items
        /\ \A j \in Items : /\ was[j] \in Seq(Current.shapes \cup {Absent}) /\ was[j] # <<>>
                            /\ world[j] \in Ever(j)
    BY <1>0 DEF JInv, WorldInv
  <1>4. ASSUME NEW j \in Items
        PROVE  /\ was'[j] \in Seq(Current.shapes \cup {Absent}) /\ was'[j] # <<>>
               /\ was'[j][1] = was[j][1] /\ Ever(j) \subseteq Ever(j)' /\ world'[j] \in Ever(j)'
    <2>1. CASE j = i
      <3>1. PICK w : w = was[j]
        OBVIOUS
      <3>2. /\ was'[j] = Append(w, new) /\ world'[j] = new
            /\ w \in Seq(Current.shapes \cup {Absent}) /\ w # <<>>
        BY <1>2, <1>3, <2>1, <3>1
      <3>3. /\ Append(w, new) \in Seq(Current.shapes \cup {Absent})
            /\ DOMAIN Append(w, new) = 1 .. Len(w) + 1 /\ DOMAIN w = 1 .. Len(w)
            /\ Len(w) \in Nat /\ Len(w) >= 1
            /\ \A k \in 1 .. Len(w) : Append(w, new)[k] = w[k]
            /\ Append(w, new)[Len(w) + 1] = new
        BY <3>2, AppendProperties
      <3>4. Append(w, new) # <<>>
        BY <3>3, Nothing
      <3> QED BY <3>1, <3>2, <3>3, <3>4 DEF Ever
    <2>2. CASE j # i
      BY <1>2, <1>3, <2>2 DEF Ever
    <2> QED BY <2>1, <2>2
  <1>5. WorldInv'
    BY <1>0, <1>1, <1>2, <1>3, <1>4 DEF WorldInv
  <1>6. \A j \in Items : (Excused(j) => Excused(j)') /\ (Taken(j) => Taken(j)')
    BY <1>0, <1>4, Stays
  <1>7. ReadInv'
    <2>1. \A j \in todo' : Current.reads = "list" => j \in DOMAIN listing' /\ listing'[j] \in Ever(j)' \ {Absent}
      BY <1>0, <1>4 DEF JInv, ReadInv
    <2>2. \A j \in todo' : Current.reads = "join" => was'[j][1] # Absent /\ was'[j][1] \notin Current.skip
      BY <1>0, <1>4 DEF JInv, ReadInv
    <2>3. \A j \in DOMAIN seen' : Taken(j)'
      BY <1>0, <1>6 DEF JInv, ReadInv
    <2>4. \A j \in Items \ (todo' \cup DOMAIN seen') : Excused(j)'
      BY <1>0, <1>6 DEF JInv, ReadInv
    <2>5. Current.reads = "join" /\ todo' # {} => DOMAIN seen' = {}
      BY <1>0 DEF JInv, ReadInv
    <2> QED BY <1>1, <2>1, <2>2, <2>3, <2>4, <2>5 DEF ReadInv
  <1> QED BY <1>5, <1>7

\* A thing that cannot be read, when the check goes on.
LEMMA SkippedReads ==
    ASSUME IInv, JInv, NEW i \in Items, pc = "check", pc' = "check",
           UNCHANGED <<start, scope, at, world, was, listing, seen>>,
           todo' = todo \ {i}, local \subseteq local', faults' \in Nat, faults <= faults',
           Excused(i)'
    PROVE  WorldInv' /\ ReadInv'
  <1>0. faults \in Nat /\ todo \subseteq Items /\ DOMAIN seen \subseteq Items
    BY InCheck, AuditAssumption DEF IInv, TypeOK
  <1>1. Current' = Current
    BY SameCheck
  <1>2. \A j : Ever(j)' = Ever(j)
    BY DEF Ever
  <1>3. WorldInv'
    BY <1>1, <1>2 DEF JInv, WorldInv
  <1>4. \A j \in Items : (Excused(j) => Excused(j)') /\ (Taken(j) => Taken(j)')
    <2>1. \A j \in Items : was'[j] # <<>> /\ was'[j][1] = was[j][1]
      BY DEF JInv, WorldInv
    <2> QED BY <1>0, <1>2, <2>1, Stays
  <1>5. \A j \in todo' :
            /\ Current.reads = "list" => j \in DOMAIN listing' /\ listing'[j] \in Ever(j)' \ {Absent}
            /\ Current.reads = "join" => was'[j][1] # Absent /\ was'[j][1] \notin Current.skip
    BY <1>2 DEF JInv, ReadInv
  <1>6. \A j \in DOMAIN seen' : Taken(j)'
    BY <1>0, <1>4 DEF JInv, ReadInv
  <1>7. \A j \in Items \ (todo' \cup DOMAIN seen') : Excused(j)'
    BY <1>4 DEF JInv, ReadInv
  <1>8. Current.reads = "join" /\ todo' # {} => DOMAIN seen' = {}
    BY DEF JInv, ReadInv
  <1> QED BY <1>1, <1>3, <1>5, <1>6, <1>7, <1>8 DEF ReadInv

LEMMA FailsReads ==
    ASSUME IInv, JInv, NEW i \in Items, Fails(i) PROVE WorldInv' /\ ReadInv'
  <1>0. /\ UNCHANGED <<start, scope>> /\ pc = "check" /\ HandleFailure(i)
        /\ faults \in Nat /\ faults' \in Nat /\ faults <= faults'
        /\ SoundRow(Current) /\ scope \in Nat
        /\ Unreadable(i) \/ faults' > 0
    BY InCheck, AuditAssumption DEF Fails, IInv, TypeOK
  <1>1. CASE Current.onError \notin {"silent", "item"}
    <2>1. pc' # "check"
      BY <1>0, <1>1 DEF HandleFailure, Advance
    <2> QED BY <2>1 DEF WorldInv, ReadInv
  <1>2. CASE Current.onError = "silent"
    <2>1. UNCHANGED <<pc, at, world, was, listing, seen, local>> /\ todo' = todo \ {i}
      BY <1>0, <1>2 DEF HandleFailure
    <2>2. Current' = Current /\ Ever(i)' = Ever(i)
      BY <1>0, <2>1, SameCheck DEF Ever
    <2>3. world[i] \in Ever(i)
      BY <1>0 DEF JInv, WorldInv
    <2>4. Excused(i)'
      BY <1>0, <1>2, <2>2, <2>3 DEF Unreadable, Excused, Overlooked
    <2> QED BY <1>0, <2>1, <2>4, SkippedReads
  <1>3. CASE Current.onError = "item"
    <2>1. /\ UNCHANGED <<pc, at, world, was, listing, seen>> /\ todo' = todo \ {i}
          /\ local' = local \cup {Finding(c, scope, i, "ERROR") : c \in Asked(Current)}
      BY <1>0, <1>3 DEF HandleFailure
    <2>2. Current' = Current /\ Asked(Current)' = Asked(Current)
      BY <1>0, <2>1, SameCheck DEF Asked, Selected
    <2>3. ASSUME NEW c \in Asked(Current) PROVE Failed(c, i)'
      <3>1. PICK f : f = Finding(c, scope, i, "ERROR")
        OBVIOUS
      <3>2. f \in local'
        BY <2>1, <3>1
      <3>3. f.scope = scope /\ f.status = "ERROR" /\ f.control = c /\ f.item = i
        BY <3>1 DEF Finding
      <3> QED BY <1>0, <3>2, <3>3 DEF Failed
    <2>4. Excused(i)'
      BY <1>3, <2>2, <2>3 DEF Excused
    <2> QED BY <1>0, <2>1, <2>4, SkippedReads
  <1> QED BY <1>1, <1>2, <1>3

LEMMA LimiterReads ==
    ASSUME IInv, JInv, NEW i \in Items, LimiterRaises(i) PROVE WorldInv' /\ ReadInv'
  <1>0. /\ UNCHANGED <<start, scope, at, world, was, listing, seen>> /\ pc = "check" /\ pc' = "check"
        /\ todo' = todo \ {i} /\ faults \in Nat /\ faults' \in Nat /\ faults <= faults'
        /\ local' = local \cup {Finding("NET-TLS-001", scope, 0, "ERROR")}
        /\ Current.onError = "item"
    BY InCheck, AuditAssumption DEF LimiterRaises, IInv, TypeOK, SoundRow
  <1>1. Current' = Current
    BY <1>0, SameCheck
  <1>2. PICK f : f = Finding("NET-TLS-001", scope, 0, "ERROR")
    OBVIOUS
  <1>3. f \in local' /\ f.scope = scope' /\ f.status = "ERROR" /\ f.item = 0
    BY <1>0, <1>2 DEF Finding
  <1>4. \A c : Failed(c, i)'
    BY <1>3 DEF Failed
  <1>5. Excused(i)'
    BY <1>0, <1>1, <1>4 DEF Excused
  <1> QED BY <1>0, <1>5, SkippedReads

\* A check speaks of its own controls.
LEMMA VerdictsAsked ==
    ASSUME NEW STATE row, NEW STATE s,
           row.verdict \in {"each", "only_bad", "none_bad", "some_good", "manual"}
    PROVE  \A f \in Verdicts(row, s) : f.control \in Asked(row)
  <1>1. \A f \in {Finding(c, scope, i, Judge(row, c, s[i])) : c \in Asked(row), i \in DOMAIN s} :
            f.control \in Asked(row)
    BY DEF Finding
  <1>2. CASE row.verdict \in {"each", "only_bad"}
    BY <1>1, <1>2 DEF Verdicts
  <1>3. CASE row.verdict \notin {"each", "only_bad"}
    <2>1. \A f \in Verdicts(row, s) : \E c \in Asked(row) : f.control = c
      <3>1. CASE row.verdict = "manual"
        <4>1. Verdicts(row, s) = {Finding(c, scope, 0, "MANUAL") : c \in Asked(row)}
          BY <3>1 DEF Verdicts
        <4> QED BY <4>1 DEF Finding
      <3>2. CASE row.verdict = "none_bad"
        <4>1. Verdicts(row, s) =
                 {Finding(c, scope, 0, IF \E i \in DOMAIN s : Judge(row, c, s[i]) = "FAIL" THEN "FAIL" ELSE "PASS")
                    : c \in Asked(row)}
          BY <3>2 DEF Verdicts
        <4> QED BY <4>1 DEF Finding
      <3>3. CASE row.verdict = "some_good"
        <4>1. Verdicts(row, s) =
                 {Finding(c, scope, 0, IF \E i \in DOMAIN s : Judge(row, c, s[i]) = "PASS" THEN "PASS" ELSE "FAIL")
                    : c \in Asked(row)}
          BY <3>3 DEF Verdicts
        <4> QED BY <4>1 DEF Finding
      <3> QED BY <1>3, <3>1, <3>2, <3>3
    <2> QED BY <2>1
  <1> QED BY <1>2, <1>3

LEMMA OnFailureAsked ==
    ASSUME NEW STATE row, NEW STATE s, NEW i,
           row.verdict \in {"each", "only_bad", "none_bad", "some_good", "manual"}
    PROVE  \A f \in OnFailure(row, s, i) : f.control \in Asked(row)
  <1> DEFINE before == Restrict(s, {j \in DOMAIN s : j < i})
  <1>1. \A f \in Verdicts(row, before) : f.control \in Asked(row)
    <2> HIDE DEF before
    <2> QED BY VerdictsAsked
  <1>2. \A f \in {Finding(c, scope, 0, row.onError) : c \in Asked(row)} : f.control \in Asked(row)
    BY DEF Finding
  <1> QED BY <1>1, <1>2 DEF OnFailure

\* A check that ends leaves failures of its own controls only.
LEMMA FreshAdvance ==
    ASSUME IInv, JInv, pc \in {"idle", "check"}, at <= Len(Table[Kind]),
           UNCHANGED <<start, scope, findings>>, NEW STATE gs, Advance(gs),
           \A f \in gs : f.status = "FAIL" => f.control \in Asked(Current)
    PROVE  FreshInv'
  <1>0. /\ at \in 1 .. Len(Table[Kind]) /\ at \in Nat /\ Len(Table[Kind]) \in Nat /\ start \in Starts
        /\ at \in 0 .. Len(Table[Kind])
    BY InCheck DEF IInv, StageInv
  <1>1. Kind' = Kind
    BY Fixed
  <1>2. PICK n \in Nat : n = at' /\ at + 1 <= n
    <2>1. PICK n : n = NextCheck(at)
      OBVIOUS
    <2>2. n \in at + 1 .. Len(Table[Kind]) + 1
      BY <1>0, <2>1, NextCheckIs, Zenon
    <2>3. at' = n
      BY <2>1 DEF Advance
    <2>4. n \in Nat /\ at + 1 <= n
      BY <1>0, <2>2
    <2> QED BY <2>3, <2>4
  <1>6. at \in Nat /\ at >= 1 /\ n \in Nat /\ at + 1 <= n
    BY <1>0, <1>2
  <1>3. ASSUME NEW f \in local', f.status = "FAIL"
        PROVE  \E j \in 1 .. n - 1 : f.control \in Table[Kind][j].controls
    <2>1. CASE f \in local
      <3>1. PICK j \in 1 .. at - 1 : f.control \in Table[Kind][j].controls
        BY <1>3, <2>1 DEF JInv, FreshInv
      <3>2. j \in 1 .. n - 1
        BY <1>6, <3>1
      <3> QED BY <3>1, <3>2
    <2>2. CASE f \in gs
      <3>1. f.control \in Table[Kind][at].controls
        BY <1>3, <2>2 DEF Asked, Current
      <3>2. at \in 1 .. n - 1
        BY <1>6
      <3> QED BY <3>1, <3>2
    <2> QED BY <1>3, <2>1, <2>2 DEF Advance
  <1>4. \A f \in local' : f.status = "FAIL" =>
            \E j \in 1 .. at' - 1 : f.control \in Table[Kind]'[j].controls
    BY <1>1, <1>2, <1>3
  <1>5. /\ pc' = "idle" /\ scope' = scope /\ findings' = findings
        /\ \A f \in findings : f.scope < scope
    BY DEF FreshInv, JInv, Advance
  <1> QED BY <1>4, <1>5 DEF FreshInv

LEMMA FreshStep == ASSUME IInv, JInv, Next PROVE FreshInv'
  <1>1. CASE Boot \/ BootFails \/ NoScopes
    BY <1>1 DEF IInv, StageInv, Boot, BootFails, NoScopes, FreshInv
  <1>2. CASE EnterScope
    <2>1. \A f \in local' : f.status = "PASS"
      BY <1>2 DEF EnterScope, Finding
    <2> QED BY <1>2, <2>1 DEF JInv, FreshInv, EnterScope
  <1>3. CASE Begin
    BY <1>3, SameCheck DEF JInv, FreshInv, Begin
  <1>4. CASE Close
    <2>1. at <= Len(Table[Kind]) /\ SoundRow(Current)
      BY <1>4, InCheck DEF Close, IInv, StageInv
    <2>2. \A f \in Verdicts(Current, seen) : f.control \in Asked(Current)
      BY <2>1, VerdictsAsked DEF SoundRow
    <2> QED BY <1>4, <2>1, <2>2, FreshAdvance DEF Close
  <1>5. CASE ListFails
    <2>1. PICK gs : gs = OnFailure(Current, <<>>, 0)
      OBVIOUS
    <2>2. \A f \in gs : f.control \in Asked(Current)
      BY <1>5, <2>1, InCheck, OnFailureAsked DEF SoundRow, ListFails
    <2> QED BY <1>5, <2>1, <2>2, FreshAdvance DEF ListFails
  <1>6. CASE OutdatedSdk
    <2> DEFINE gs == {Finding(c, scope, 0, "MANUAL") : c \in Asked(Current)}
    <2>1. Advance(gs)
      BY <1>6 DEF OutdatedSdk
    <2>2. \A f \in gs : f.control \in Asked(Current)
      BY DEF Finding
    <2> HIDE DEF gs
    <2> QED BY <1>6, <2>1, <2>2, FreshAdvance DEF OutdatedSdk
  <1>7. ASSUME NEW i \in Items, Read(i) \/ Change(i) PROVE FreshInv'
    BY <1>7, SameCheck DEF JInv, FreshInv, Read, Change
  <1>8. ASSUME NEW i \in Items, LimiterRaises(i) PROVE FreshInv'
    <2>1. \A f \in local' \ local : f.status = "ERROR"
      BY <1>8 DEF LimiterRaises, Finding
    <2> QED BY <1>8, <2>1, SameCheck DEF JInv, FreshInv, LimiterRaises
  <1>9. ASSUME NEW i \in Items, Fails(i) PROVE FreshInv'
    <2>0. /\ UNCHANGED <<start, scope>> /\ pc = "check" /\ HandleFailure(i)
          /\ SoundRow(Current) /\ at <= Len(Table[Kind])
      BY <1>9, InCheck DEF Fails, IInv, StageInv
    <2>1. CASE Current.onError = "silent"
      BY <2>0, <2>1, SameCheck DEF HandleFailure, JInv, FreshInv
    <2>2. CASE Current.onError = "item"
      <3>1. /\ local' = local \cup {Finding(c, scope, i, "ERROR") : c \in Asked(Current)}
            /\ UNCHANGED <<pc, at, findings>>
        BY <2>0, <2>2 DEF HandleFailure
      <3>2. \A f \in local' \ local : f.status = "ERROR"
        BY <3>1 DEF Finding
      <3> QED BY <2>0, <3>1, <3>2, SameCheck DEF JInv, FreshInv
    <2>3. CASE Current.onError = "discard"
      BY <2>0, <2>3 DEF HandleFailure, FreshInv
    <2>4. CASE Current.onError \notin {"silent", "item", "discard"}
      <3>1. PICK gs : gs = OnFailure(Current, seen, i)
        OBVIOUS
      <3>2. \A f \in gs : f.control \in Asked(Current)
        BY <2>0, <3>1, OnFailureAsked DEF SoundRow
      <3>3. Advance(gs) /\ UNCHANGED findings
        BY <2>0, <2>4, <3>1 DEF HandleFailure
      <3> QED BY <2>0, <3>2, <3>3, FreshAdvance
    <2> QED BY <2>1, <2>2, <2>3, <2>4
  <1>10. CASE Escapes
    <2>0. scope \in Nat
      BY <1>10, AuditAssumption DEF Escapes, IInv, TypeOK
    <2>1. \A f \in findings' : f.scope = scope \/ f.scope < scope
      BY <1>10 DEF Escapes, JInv, FreshInv, Finding
    <2>2. CASE Member
      <3>1. \A f \in findings : f.scope \in Nat
        BY DEF IInv, LocalInv, Found, Formed
      <3>2. \A f \in findings' : f.scope \in Nat
        BY <1>10, <2>0, <2>2, <3>1 DEF Escapes, Finding
      <3>3. pc' = "scope" /\ scope' = scope + 1
        BY <1>10, <2>2 DEF Escapes
      <3>4. \A f \in findings' : f.scope < scope'
        BY <2>0, <2>1, <3>2, <3>3
      <3> QED BY <3>3, <3>4 DEF FreshInv
    <2>3. CASE ~Member
      BY <1>10, <2>3 DEF Escapes, FreshInv
    <2> QED BY <2>2, <2>3
  <1>11. CASE LeaveScope
    <2>1. scope \in Nat /\ scope' = scope + 1 /\ pc' = "scope" /\ findings' = findings \cup local
      BY <1>11, AuditAssumption DEF LeaveScope, IInv, TypeOK
    <2>2. \A f \in findings' : f.scope \in Nat /\ (f.scope = scope \/ f.scope < scope)
      BY <1>11, <2>1 DEF LeaveScope, JInv, FreshInv, IInv, LocalInv, Found, Formed
    <2>3. \A f \in findings' : f.scope < scope'
      BY <2>1, <2>2
    <2> QED BY <2>1, <2>3 DEF FreshInv
  <1>12. CASE Finish
    BY <1>12 DEF Finish, FreshInv
  <1>13. CASE \E i \in Items : Read(i) \/ Fails(i) \/ LimiterRaises(i) \/ Change(i)
    BY <1>7, <1>8, <1>9, <1>13
  <1> QED BY <1>1, <1>2, <1>3, <1>4, <1>5, <1>6, <1>10, <1>11, <1>12, <1>13 DEF Next

LEMMA JInvHolds == Spec => []JInv
  <1>1. Init => JInv
    BY DEF Init, JInv, WorldInv, ReadInv, FreshInv
  <1>2. IInv /\ JInv /\ [Next]_vars => JInv'
    <2> SUFFICES ASSUME IInv, JInv, [Next]_vars PROVE JInv'
      OBVIOUS
    <2>1. ASSUME pc' # "check" PROVE WorldInv' /\ ReadInv'
      BY <2>1 DEF WorldInv, ReadInv
    <2>2. CASE Boot \/ BootFails \/ NoScopes \/ EnterScope \/ Close \/ ListFails \/ OutdatedSdk
               \/ Escapes \/ LeaveScope \/ Finish
      <3>1. pc' # "check"
        BY <2>2 DEF Boot, BootFails, NoScopes, EnterScope, Close, ListFails, OutdatedSdk, Advance,
                    Escapes, LeaveScope, Finish
      <3> QED BY <2>1, <2>2, <3>1, FreshStep DEF JInv, Next
    <2>3. CASE Begin
      BY <2>3, BeginReads, FreshStep DEF JInv, Next
    <2>4. ASSUME NEW i \in Items, Read(i) \/ Fails(i) \/ LimiterRaises(i) \/ Change(i)
          PROVE  JInv'
      BY <2>4, ReadReads, FailsReads, LimiterReads, ChangeReads, FreshStep DEF JInv, Next
    <2>5. CASE UNCHANGED vars
      <3>1. UNCHANGED <<start, scope, at, local, world, was, listing, todo, seen, findings, pc, faults>>
        BY <2>5 DEF vars
      <3>2. Kind' = Kind /\ Current' = Current /\ \A row : Asked(row)' = Asked(row)
        BY <3>1, SameCheck
      <3>3. WorldInv' /\ FreshInv'
        BY <3>1, <3>2 DEF JInv, WorldInv, FreshInv, Ever
      <3>4. ReadInv'
        BY <3>1, <3>2 DEF JInv, ReadInv, Taken, Excused, Failed, Overlooked, Deleted, Ever
      <3> QED BY <3>3, <3>4 DEF JInv
    <2> QED BY <2>2, <2>3, <2>4, <2>5 DEF Next
  <1> QED BY <1>1, <1>2, InvHolds, PTL DEF Spec
-----------------------------------------------------------------------------
\* What a check has read is a thing there may have been, or the absence of one
\* that was deleted while two listings were joined.
LEMMA SeenIs ==
    ASSUME IInv, JInv, pc = "check", NEW STATE i, i \in DOMAIN seen
    PROVE  \/ seen[i] = Absent /\ Current.reads = "join" /\ Deleted(i)
           \/ seen[i] # Absent /\ seen[i] \in Mixes(i) \ Current.fatal
  <1>1. SoundRow(Current) /\ i \in Items
    BY InCheck
  <1>2. was[i] \in Seq(Current.shapes \cup {Absent})
    BY <1>1 DEF JInv, WorldInv
  <1>3. Ever(i) \subseteq Current.shapes \cup {Absent}
    BY <1>2 DEF Ever
  <1>4. Taken(i)
    BY DEF JInv, ReadInv
  <1>5. CASE seen[i] = Absent /\ Current.reads = "join" /\ Deleted(i)
    BY <1>5
  <1>6. CASE seen[i] # Absent /\ seen[i] \in Ever(i) \ Current.fatal
    <2>1. seen[i] \in Current.shapes
      BY <1>3, <1>6
    <2> QED BY <1>6, <2>1 DEF Mixes
  <1>7. CASE /\ Current.reads = "list"
             /\ \E u, t \in Ever(i) \ {Absent} : seen[i] = Mixed(Current, u, t)
    <2>1. PICK u, t \in Ever(i) \ {Absent} : seen[i] = Mixed(Current, u, t)
      BY <1>7
    <2>2. u \in Current.shapes /\ t \in Current.shapes
      BY <1>3, <2>1
    <2>3. seen[i] \in Current.shapes
      BY <1>1, <1>7, <2>1, <2>2 DEF SoundRow
    <2>4. DOMAIN seen[i] = DOMAIN t /\ \A a \in DOMAIN seen[i] : seen[i][a] \in {u[a], t[a]}
      BY <2>1 DEF Mixed
    <2>5. \A a \in DOMAIN seen[i] : \E v \in Ever(i) \ {Absent} : v[a] = seen[i][a]
      BY <2>1, <2>4
    <2>6. seen[i] \in Mixes(i)
      BY <2>3, <2>5 DEF Mixes
    <2>7. Current.fatal = {} /\ seen[i] # Absent
      BY <1>1, <1>7, <2>3 DEF SoundRow
    <2> QED BY <2>6, <2>7
  <1> QED BY <1>4, <1>5, <1>6, <1>7 DEF Taken

\* A thing that had all along what a check looks for is read, and has it.
LEMMA SeenGood ==
    ASSUME IInv, JInv, pc = "check", todo = {}, NEW STATE i, i \in Items,
           NEW STATE c, c \in Asked(Current), c \in AskForOne, Ever(i) \subseteq Current.good[c],
           ~Garbled(i)
    PROVE  i \in DOMAIN seen /\ seen[i] \in Current.good[c]
  <1>1. /\ SoundRow(Current) /\ c \in Current.controls
        /\ Current.verdict = "some_good" /\ Current.reads = "list" /\ Current.fatal = {}
        /\ Current.onError # "item" /\ Current.onError # "silent"
        /\ Absent \notin Current.good[c]
        /\ \A u, t \in Current.good[c] : Mixed(Current, u, t) \in Current.good[c]
    BY InCheck DEF Asked, SoundRow
  <1>2. Excused(i) => Current.garbles # "no"
    BY <1>1 DEF Excused, Overlooked
  <1>3. i \in DOMAIN seen
    BY <1>2 DEF Garbled, JInv, ReadInv
  <1>4. Taken(i)
    BY <1>3 DEF JInv, ReadInv
  <1> QED BY <1>1, <1>3, <1>4 DEF Taken

\* An unacceptable thing is in the verdict of every check that does not look
\* for an acceptable one; one that does fails when it has found none.
LEMMA VerdictTells ==
    ASSUME NEW STATE row, NEW STATE s, NEW STATE c, c \in Asked(row),
           row.verdict \in {"each", "only_bad", "none_bad", "some_good", "manual"}
    PROVE  /\ \A i \in DOMAIN s :
                 row.verdict # "some_good" /\ Judge(row, c, s[i]) = "FAIL" =>
                     \E f \in Verdicts(row, s) : /\ f.scope = scope /\ f.control = c /\ f.item \in {0, i}
                                                 /\ f.status \notin {"PASS", "SKIP"}
           /\ row.verdict = "some_good" /\ (\A i \in DOMAIN s : Judge(row, c, s[i]) # "PASS") =>
                     \E f \in Verdicts(row, s) : /\ f.scope = scope /\ f.control = c /\ f.item = 0
                                                 /\ f.status \notin {"PASS", "SKIP"}
  <1>1. ASSUME NEW i, NEW st, NEW f, f = Finding(c, scope, i, st)
        PROVE  f.scope = scope /\ f.control = c /\ f.item = i /\ f.status = st
    BY <1>1 DEF Finding
  <1>2. ASSUME NEW i \in DOMAIN s, row.verdict # "some_good", Judge(row, c, s[i]) = "FAIL"
        PROVE  \E st \in {"FAIL", "MANUAL"}, k \in {0, i} : Finding(c, scope, k, st) \in Verdicts(row, s)
    <2>1. CASE row.verdict = "each"
      <3>1. Verdicts(row, s) = {Finding(d, scope, k, Judge(row, d, s[k])) : d \in Asked(row), k \in DOMAIN s}
        BY <2>1 DEF Verdicts
      <3>2. Finding(c, scope, i, Judge(row, c, s[i])) \in Verdicts(row, s)
        BY <3>1
      <3> QED BY <1>2, <3>2
    <2>2. CASE row.verdict = "only_bad"
      <3>1. Verdicts(row, s) =
               {f \in {Finding(d, scope, k, Judge(row, d, s[k])) : d \in Asked(row), k \in DOMAIN s}
                  : f.status = "FAIL"}
        BY <2>2 DEF Verdicts
      <3>2. PICK f : f = Finding(c, scope, i, Judge(row, c, s[i]))
        OBVIOUS
      <3>3. f.status = "FAIL"
        BY <1>2, <3>2 DEF Finding
      <3>4. f \in Verdicts(row, s)
        BY <3>1, <3>2, <3>3
      <3> QED BY <1>2, <3>2, <3>4
    <2>3. CASE row.verdict = "none_bad"
      <3>1. Verdicts(row, s) =
               {Finding(d, scope, 0, IF \E k \in DOMAIN s : Judge(row, d, s[k]) = "FAIL" THEN "FAIL" ELSE "PASS")
                  : d \in Asked(row)}
        BY <2>3 DEF Verdicts
      <3>2. Finding(c, scope, 0, "FAIL") \in Verdicts(row, s)
        BY <1>2, <3>1
      <3> QED BY <3>2
    <2>4. CASE row.verdict = "manual"
      <3>1. Verdicts(row, s) = {Finding(d, scope, 0, "MANUAL") : d \in Asked(row)}
        BY <2>4 DEF Verdicts
      <3>2. Finding(c, scope, 0, "MANUAL") \in Verdicts(row, s)
        BY <3>1
      <3> QED BY <3>2
    <2> QED BY <1>2, <2>1, <2>2, <2>3, <2>4
  <1>3. ASSUME NEW i \in DOMAIN s, row.verdict # "some_good", Judge(row, c, s[i]) = "FAIL"
        PROVE  \E f \in Verdicts(row, s) : /\ f.scope = scope /\ f.control = c /\ f.item \in {0, i}
                                           /\ f.status \notin {"PASS", "SKIP"}
    <2>1. PICK st \in {"FAIL", "MANUAL"}, k \in {0, i} : Finding(c, scope, k, st) \in Verdicts(row, s)
      BY <1>2, <1>3
    <2>2. PICK f : f = Finding(c, scope, k, st)
      OBVIOUS
    <2>3. f.scope = scope /\ f.control = c /\ f.item = k /\ f.status = st
      BY <1>1, <2>2
    <2> QED BY <2>1, <2>2, <2>3
  <1>4. ASSUME row.verdict = "some_good", \A i \in DOMAIN s : Judge(row, c, s[i]) # "PASS"
        PROVE  \E f \in Verdicts(row, s) : /\ f.scope = scope /\ f.control = c /\ f.item = 0
                                           /\ f.status \notin {"PASS", "SKIP"}
    <2>1. Verdicts(row, s) =
             {Finding(d, scope, 0, IF \E k \in DOMAIN s : Judge(row, d, s[k]) = "PASS" THEN "PASS" ELSE "FAIL")
                : d \in Asked(row)}
      BY <1>4 DEF Verdicts
    <2>2. Finding(c, scope, 0, "FAIL") \in Verdicts(row, s)
      BY <1>4, <2>1
    <2>3. PICK f : f = Finding(c, scope, 0, "FAIL")
      OBVIOUS
    <2> QED BY <1>1, <2>2, <2>3
  <1> QED BY <1>3, <1>4

\* A FAIL of a verdict is about something read that is not accepted, or about
\* the lack of anything accepted.
LEMMA VerdictBlames ==
    ASSUME NEW STATE row, NEW STATE s, NEW STATE f, f \in Verdicts(row, s), f.status = "FAIL",
           row.verdict \in {"each", "only_bad", "none_bad", "some_good", "manual"}
    PROVE  IF row.verdict = "some_good"
           THEN \A i \in DOMAIN s : Judge(row, f.control, s[i]) # "PASS"
           ELSE \E i \in DOMAIN s : f.item \in {0, i} /\ Judge(row, f.control, s[i]) = "FAIL"
  <1>1. CASE row.verdict \in {"each", "only_bad"}
    <2>1. Verdicts(row, s) \subseteq {Finding(d, scope, k, Judge(row, d, s[k])) : d \in Asked(row), k \in DOMAIN s}
      BY <1>1 DEF Verdicts
    <2>2. PICK d \in Asked(row), k \in DOMAIN s : f = Finding(d, scope, k, Judge(row, d, s[k]))
      BY <2>1
    <2>3. f.item = k /\ f.control = d /\ f.status = Judge(row, d, s[k])
      BY <2>2 DEF Finding
    <2> QED BY <1>1, <2>3
  <1>2. CASE row.verdict = "none_bad"
    <2>1. Verdicts(row, s) =
             {Finding(d, scope, 0, IF \E k \in DOMAIN s : Judge(row, d, s[k]) = "FAIL" THEN "FAIL" ELSE "PASS")
                : d \in Asked(row)}
      BY <1>2 DEF Verdicts
    <2>2. PICK d \in Asked(row) :
              f = Finding(d, scope, 0, IF \E k \in DOMAIN s : Judge(row, d, s[k]) = "FAIL" THEN "FAIL" ELSE "PASS")
      BY <2>1
    <2>3. f.item = 0 /\ f.control = d /\ \E k \in DOMAIN s : Judge(row, d, s[k]) = "FAIL"
      BY <2>2 DEF Finding
    <2> QED BY <1>2, <2>3
  <1>3. CASE row.verdict = "some_good"
    <2>1. Verdicts(row, s) =
             {Finding(d, scope, 0, IF \E k \in DOMAIN s : Judge(row, d, s[k]) = "PASS" THEN "PASS" ELSE "FAIL")
                : d \in Asked(row)}
      BY <1>3 DEF Verdicts
    <2>2. PICK d \in Asked(row) :
              f = Finding(d, scope, 0, IF \E k \in DOMAIN s : Judge(row, d, s[k]) = "PASS" THEN "PASS" ELSE "FAIL")
      BY <2>1
    <2>3. f.control = d /\ ~ \E k \in DOMAIN s : Judge(row, d, s[k]) = "PASS"
      BY <2>2 DEF Finding
    <2> QED BY <1>3, <2>3
  <1>4. CASE row.verdict = "manual"
    <2>1. Verdicts(row, s) = {Finding(d, scope, 0, "MANUAL") : d \in Asked(row)}
      BY <1>4 DEF Verdicts
    <2> QED BY <2>1 DEF Finding
  <1> QED BY <1>1, <1>2, <1>3, <1>4

\* What a verdict says of what has been read is true of the check.
LEMMA Condemned ==
    ASSUME IInv, JInv, pc = "check", NEW STATE i, i \in DOMAIN seen, NEW STATE c,
           Judge(Current, c, seen[i]) = "FAIL"
    PROVE  Mixes(i) \ Accepted(c) # {} \/ (Current.reads = "join" /\ Deleted(i))
  <1>1. seen[i] \notin Current.skip \cup Current.good[c]
    BY DEF Judge
  <1>2. seen[i] \notin Accepted(c)
    BY <1>1 DEF Accepted
  <1> QED BY <1>2, SeenIs

LEMMA MissedOnClose ==
    ASSUME IInv, JInv, Close, NEW STATE c, c \in Asked(Current)
    PROVE  IF c \in AskForOne
           THEN (\A i \in Items : Mixes(i) \cap Current.good[c] = {}) => Alarm(c, 0)
           ELSE \A i \in Items :
                   Absent \notin Ever(i) /\ Mixes(i) \cap Accepted(c) = {}
                   => Alarm(c, i) \/ Overlooked(i) \/ Garbled(i)
  <1>0. /\ pc = "check" /\ todo = {} /\ local' = local \cup Verdicts(Current, seen)
        /\ SoundRow(Current) /\ c \in Current.controls /\ DOMAIN seen \subseteq Items
        /\ Current.verdict \in {"each", "only_bad", "none_bad", "some_good", "manual"}
        /\ c \in AskForOne <=> Current.verdict = "some_good"
    BY InCheck DEF Close, Advance, Asked, SoundRow
  <1>1. PICK vs : vs = Verdicts(Current, seen)
    OBVIOUS
  <1>2. ASSUME c \in AskForOne, \A i \in Items : Mixes(i) \cap Current.good[c] = {}
        PROVE  Alarm(c, 0)
    <2>1. Current.reads # "join" /\ Current.skip = {}
      BY <1>0, <1>2 DEF SoundRow
    <2>2. ASSUME NEW i \in DOMAIN seen PROVE Judge(Current, c, seen[i]) # "PASS"
      <3>1. seen[i] \in Mixes(i)
        BY <1>0, <2>1, <2>2, SeenIs
      <3>2. seen[i] \notin Current.good[c]
        BY <1>0, <1>2, <2>2, <3>1
      <3> QED BY <3>2 DEF Judge
    <2>3. \E f \in Verdicts(Current, seen) : /\ f.scope = scope /\ f.control = c /\ f.item = 0
                                             /\ f.status \notin {"PASS", "SKIP"}
      BY <1>0, <1>2, <2>2, VerdictTells
    <2> QED BY <1>0, <2>3 DEF Alarm
  <1>3. ASSUME c \notin AskForOne, NEW i \in Items, Absent \notin Ever(i),
               Mixes(i) \cap Accepted(c) = {}, ~Overlooked(i), ~Garbled(i)
        PROVE  Alarm(c, i)
    <2>1. CASE i \in DOMAIN seen
      <3>1. seen[i] \in Mixes(i) \ Current.fatal
        BY <1>0, <1>3, <2>1, SeenIs DEF Deleted
      <3>2. seen[i] \notin Current.good[c] \cup Current.skip
        BY <1>3, <3>1 DEF Accepted
      <3>3. Judge(Current, c, seen[i]) = "FAIL"
        BY <3>2 DEF Judge
      <3>4. \E f \in Verdicts(Current, seen) : /\ f.scope = scope /\ f.control = c /\ f.item \in {0, i}
                                               /\ f.status \notin {"PASS", "SKIP"}
        BY <1>0, <1>3, <2>1, <3>3, VerdictTells
      <3> QED BY <1>0, <3>4 DEF Alarm
    <2>2. CASE i \notin DOMAIN seen
      <3>1. Excused(i)
        BY <1>0, <2>2 DEF JInv, ReadInv
      <3>2. ASSUME Current.reads = "join", was[i][1] \in Current.skip PROVE FALSE
        <4>1. was[i] \in Seq(Current.shapes \cup {Absent}) /\ was[i] # <<>>
          BY <1>0 DEF JInv, WorldInv
        <4>2. 1 \in DOMAIN was[i]
          BY <4>1
        <4>3. PICK t : t = was[i][1]
          OBVIOUS
        <4>4. t \in Ever(i) /\ t \in Current.shapes /\ t \in Accepted(c) /\ t # Absent
          BY <1>0, <3>2, <4>2, <4>3 DEF Ever, SoundRow, Accepted
        <4>5. t \in Mixes(i)
          BY <4>4 DEF Mixes
        <4> QED BY <1>3, <4>4, <4>5
      <3>3. Failed(c, i)
        BY <1>3, <2>2, <3>1, <3>2 DEF Excused, Garbled
      <3>4. PICK f \in local : /\ f.scope = scope /\ f.status = "ERROR"
                               /\ (f.control = c /\ f.item = i) \/ f.item = 0
        BY <3>3 DEF Failed
      <3> QED BY <1>0, <3>4 DEF Alarm
    <2> QED BY <2>1, <2>2
  <1> QED BY <1>2, <1>3

LEMMA AlarmOnFailure ==
    ASSUME IInv, NEW i \in Items, Fails(i), pc' # "check", NEW STATE c, c \in Asked(Current),
           NEW j
    PROVE  Alarm(c, j)
  <1>0. pc = "check" /\ HandleFailure(i)
    BY DEF Fails
  <1>1. CASE Current.onError \in {"silent", "item"}
    BY <1>0, <1>1 DEF HandleFailure
  <1>2. CASE Current.onError = "discard"
    <2>1. PICK f : f = Finding("TF-SEC-001", scope, 0, "ERROR")
      OBVIOUS
    <2>2. f \in findings'
      BY <1>0, <1>2, <2>1 DEF HandleFailure
    <2>3. f.scope = scope /\ f.status = "ERROR" /\ f.item = 0
      BY <2>1 DEF Finding
    <2> QED BY <2>2, <2>3 DEF Alarm
  <1>3. CASE Current.onError \notin {"silent", "item", "discard"}
    <2>1. Current.onError \in {"ERROR", "MANUAL"}
      BY <1>0, <1>3, InCheck DEF SoundRow
    <2>2. PICK f : f = Finding(c, scope, 0, Current.onError)
      OBVIOUS
    <2>3. f \in OnFailure(Current, seen, i)
      BY <2>2 DEF OnFailure
    <2>4. f \in local'
      BY <1>0, <1>3, <2>3 DEF HandleFailure, Advance
    <2>5. f.scope = scope /\ f.control = c /\ f.item = 0 /\ f.status \notin {"PASS", "SKIP"}
      BY <2>1, <2>2 DEF Finding
    <2> QED BY <2>4, <2>5 DEF Alarm
  <1> QED BY <1>1, <1>2, <1>3

\* Only the end of a check, or a failure that its handler does not survive,
\* closes it.
LEMMA ClosedBy ==
    ASSUME [Next]_vars, Closes
    PROVE  Close \/ \E i \in Items : Fails(i)
  <1>1. pc = "check" /\ pc' # "check"
    BY DEF Closes
  <1> QED BY <1>1 DEF Next, Boot, BootFails, NoScopes, EnterScope, Begin, ListFails, OutdatedSdk,
                      Read, LimiterRaises, Change, Escapes, LeaveScope, Finish, vars

\* NothingMissed: a thing that no moment of a check would have found acceptable
\* is reported when the check ends, whatever the code reads late, twice or not
\* at all, and a control that asks for something is not passed without it; unless it
\* is a file that could not be opened or a line that could not be decoded.
THEOREM NothingMissedHolds == Spec => NothingMissed
  <1> DEFINE Told == Closes => \A c \in Asked(Current) :
            IF c \in AskForOne
            THEN (\A i \in Items : Mixes(i) \cap Current.good[c] = {}) => Alarm(c, 0)
            ELSE \A i \in Items :
                    Absent \notin Ever(i) /\ Mixes(i) \cap Accepted(c) = {}
                    => Alarm(c, i) \/ Overlooked(i) \/ Garbled(i)
  <1>1. IInv /\ JInv /\ [Next]_vars => [Told]_vars
    <2> SUFFICES ASSUME IInv, JInv, [Next]_vars, Closes, NEW c \in Asked(Current)
                 PROVE  IF c \in AskForOne
                        THEN (\A i \in Items : Mixes(i) \cap Current.good[c] = {}) => Alarm(c, 0)
                        ELSE \A i \in Items :
                                Absent \notin Ever(i) /\ Mixes(i) \cap Accepted(c) = {}
                                => Alarm(c, i) \/ Overlooked(i) \/ Garbled(i)
      OBVIOUS
    <2>1. CASE Close
      BY <2>1, MissedOnClose
    <2>2. ASSUME NEW i \in Items, Fails(i) PROVE \A j : Alarm(c, j)
      BY <2>2, AlarmOnFailure DEF Closes
    <2> QED BY <2>1, <2>2, ClosedBy
  <1>2. Spec => [][Told]_vars
    BY <1>1, InvHolds, JInvHolds, PTL DEF Spec
  <1> QED BY <1>2 DEF NothingMissed
-----------------------------------------------------------------------------
\* A failure among the findings of a scope, when a check has just ended, is of
\* a check before it or in what this one has said.
LEMMA Fresh ==
    ASSUME IInv, JInv, pc = "check", NEW f, f \in local \cup findings,
           f.status = "FAIL", f.scope = scope, f.control \in Asked(Current)
    PROVE  FALSE
  <1>0. /\ at \in 1 .. Len(Table[Kind]) /\ scope \in Nat /\ DOMAIN Table[Kind] = 1 .. Len(Table[Kind])
        /\ start \in Starts /\ at \in Nat /\ Len(Table[Kind]) \in Nat
    BY InCheck
  <1>1. f \in local
    BY <1>0 DEF JInv, FreshInv
  <1>2. PICK j \in 1 .. at - 1 : f.control \in Table[Kind][j].controls
    BY <1>1 DEF JInv, FreshInv
  <1>3. j \in DOMAIN Table[Kind] /\ at \in DOMAIN Table[Kind] /\ j # at
    BY <1>0, <1>2
  <1>4. Kind \in DOMAIN Table
    BY <1>0, Kinds, AuditAssumption DEF Kind
  <1>5. Table[Kind][j].controls \cap Table[Kind][at].controls = {}
    BY <1>3, <1>4, AuditAssumption
  <1> QED BY <1>2, <1>5 DEF Asked, Current

LEMMA RealStep ==
    ASSUME IInv, JInv, [Next]_vars, Closes, NEW f \in local' \cup findings',
           f.status = "FAIL", f.scope = scope, f.control \in Asked(Current)
    PROVE  IF f.control \in AskForOne
           THEN \A i \in Items : ~(Ever(i) \subseteq Current.good[f.control]) \/ Garbled(i)
           ELSE \E i \in IF f.item = 0 THEN Items ELSE {f.item} :
                   \/ Mixes(i) \ Accepted(f.control) # {}
                   \/ Current.reads = "join" /\ Deleted(i)
  <1>0. /\ pc = "check" /\ SoundRow(Current) /\ DOMAIN seen \subseteq Items
        /\ f.control \in AskForOne <=> Current.verdict = "some_good"
        /\ Current.verdict \in {"each", "only_bad", "none_bad", "some_good", "manual"}
        /\ 0 \notin Items
    BY InCheck, AuditAssumption DEF Closes, Asked, SoundRow
  <1>1. f \notin local \cup findings
    BY <1>0, Fresh
  <1>2. PICK c : c = f.control
    OBVIOUS
  <1>3. ASSUME f.control \notin AskForOne, NEW i \in DOMAIN seen, f.item \in {0, i},
               Judge(Current, f.control, seen[i]) = "FAIL"
        PROVE  \E k \in IF f.item = 0 THEN Items ELSE {f.item} :
                   \/ Mixes(k) \ Accepted(f.control) # {}
                   \/ Current.reads = "join" /\ Deleted(k)
    <2>1. i \in IF f.item = 0 THEN Items ELSE {f.item}
      BY <1>0, <1>3
    <2>2. Mixes(i) \ Accepted(f.control) # {} \/ (Current.reads = "join" /\ Deleted(i))
      BY <1>0, <1>3, Condemned
    <2> QED BY <2>1, <2>2
  <1>4. CASE Close
    <2>1. f \in Verdicts(Current, seen) /\ todo = {}
      BY <1>1, <1>4 DEF Close, Advance
    <2>2. IF Current.verdict = "some_good"
          THEN \A i \in DOMAIN seen : Judge(Current, f.control, seen[i]) # "PASS"
          ELSE \E i \in DOMAIN seen : f.item \in {0, i} /\ Judge(Current, f.control, seen[i]) = "FAIL"
      BY <1>0, <2>1, VerdictBlames
    <2>3. CASE Current.verdict # "some_good"
      BY <1>0, <1>3, <2>2, <2>3
    <2>4. CASE Current.verdict = "some_good"
      <3>1. ASSUME NEW i \in Items, Ever(i) \subseteq Current.good[f.control], ~Garbled(i) PROVE FALSE
        <4>1. i \in DOMAIN seen /\ seen[i] \in Current.good[f.control]
          BY <1>0, <2>1, <2>4, <3>1, SeenGood
        <4>2. Current.skip = {}
          BY <1>0, <2>4 DEF SoundRow
        <4> QED BY <2>2, <2>4, <4>1, <4>2 DEF Judge
      <3> QED BY <1>0, <2>4, <3>1
    <2> QED BY <2>3, <2>4
  <1>5. ASSUME NEW i \in Items, Fails(i)
        PROVE  /\ f.control \notin AskForOne
               /\ \E k \in DOMAIN seen : f.item \in {0, k} /\ Judge(Current, f.control, seen[k]) = "FAIL"
    <2>0. HandleFailure(i) /\ pc' # "check"
      BY <1>5 DEF Fails, Closes
    <2>1. CASE Current.onError \in {"silent", "item"}
      BY <1>0, <2>0, <2>1 DEF HandleFailure
    <2>2. CASE Current.onError = "discard"
      <3>1. local' = {} /\ findings' = {Finding("TF-SEC-001", scope, 0, "ERROR")}
        BY <2>0, <2>2 DEF HandleFailure
      <3> QED BY <3>1 DEF Finding
    <2>3. CASE Current.onError \notin {"silent", "item", "discard"}
      <3>1. f \in OnFailure(Current, seen, i)
        BY <1>1, <2>0, <2>3 DEF HandleFailure, Advance
      <3>2. PICK before : before = Restrict(seen, {j \in DOMAIN seen : j < i})
        OBVIOUS
      <3>3. \A g \in {Finding(d, scope, 0, Current.onError) : d \in Asked(Current)} : g.status # "FAIL"
        BY <1>0, <2>3 DEF SoundRow, Finding
      <3>4. Current.verdict = "each" /\ f \in Verdicts(Current, before)
        BY <3>1, <3>2, <3>3 DEF OnFailure
      <3>5. \E k \in DOMAIN before : f.item \in {0, k} /\ Judge(Current, f.control, before[k]) = "FAIL"
        BY <1>0, <3>4, VerdictBlames
      <3>6. DOMAIN before \subseteq DOMAIN seen /\ \A k \in DOMAIN before : before[k] = seen[k]
        BY <3>2 DEF Restrict
      <3> QED BY <1>0, <3>4, <3>5, <3>6
    <2> QED BY <2>1, <2>2, <2>3
  <1>6. CASE \E i \in Items : Fails(i)
    BY <1>3, <1>5, <1>6
  <1> QED BY <1>4, <1>6, ClosedBy

\* FailIsReal: a FAIL is somebody's fault. Something was unacceptable at some
\* moment of the check, or what was asked for was not there all the time,
\* except for a thing deleted between the two listings that a check joins, and an
\* option of the Docker daemon in output that could not be decoded.
THEOREM FailIsRealHolds == Spec => FailIsReal
  <1> DEFINE Real == Closes => \A f \in local' \cup findings' :
            f.status = "FAIL" /\ f.scope = scope /\ f.control \in Asked(Current) =>
                IF f.control \in AskForOne
                THEN \A i \in Items : ~(Ever(i) \subseteq Current.good[f.control]) \/ Garbled(i)
                ELSE \E i \in IF f.item = 0 THEN Items ELSE {f.item} :
                        \/ Mixes(i) \ Accepted(f.control) # {}
                        \/ Current.reads = "join" /\ Deleted(i)
  <1>1. IInv /\ JInv /\ [Next]_vars => [Real]_vars
    BY RealStep
  <1>2. Spec => [][Real]_vars
    BY <1>1, InvHolds, JInvHolds, PTL DEF Spec
  <1> QED BY <1>2 DEF FailIsReal
=============================================================================
