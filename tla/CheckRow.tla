----------------------------- MODULE CheckRow -----------------------------
(***************************************************************************)
(* What the audits have in common: a check reads the things of one kind in *)
(* one scope and answers one or more controls. A check is written as a row *)
(* that says what a thing looks like, what the code accepts, how it reads  *)
(* and what it does with a thing it cannot read.                           *)
(***************************************************************************)
EXTENDS TLC

\* verdict: "each"      a finding for every thing read
\*          "only_bad"  a finding for every thing that is not accepted
\*          "none_bad"  one finding, PASS when nothing read is unacceptable
\*          "some_good" one finding, PASS when something read is accepted
\*          "manual"    one MANUAL finding, nothing is read
\* good:    [control -> the things accepted for it]
\* shapes:  the things there can be
Row(verdict, good, shapes) ==
    [controls |-> DOMAIN good,
     verdict  |-> verdict,
     good     |-> good,
     shapes   |-> shapes,
     reads    |-> "list",   \* "page": a listing read lazily, "join": two listings,
                            \* "tasks": a task per thing, in any order,
                            \* "file": a document already in memory
     listed   |-> {},       \* attributes taken from the listing, not from the call
     calls    |-> {},       \* listed things that take a call of their own to read
     callsFor |-> DOMAIN good,  \* the controls the call is made for
     skip     |-> {},       \* things the code passes over
     fatal    |-> {},       \* things that cannot be read
     garbles  |-> "no",     \* output that is no JSON is passed over without a word:
                            \* a "line" of it for a thing, or the whole "document"
     onError  |-> "ERROR",  \* "MANUAL", "discard", "silent", "item"
     outdated |-> FALSE]    \* an SDK without the call makes the check MANUAL

\* A thing that differs from thing t in at most one attribute.
OneOff(t, things) ==
    {u \in things : \A a, b \in DOMAIN t : u[a] # t[a] /\ u[b] # t[b] => a = b}
=============================================================================
