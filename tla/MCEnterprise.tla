--------------------------- MODULE MCEnterprise ---------------------------
(***************************************************************************)
(* The enterprise workflow and the cost cards, which share no state: a     *)
(* behaviour chooses one of them and follows it, and the other stays as it *)
(* begins, so that a run explores the sum of their states.                 *)
(***************************************************************************)
EXTENDS EnterpriseWorkflow, CostCards, TLC

CONSTANTS s1, s2, k1, i1, i2, h1, a1, a2, l1, soup, rice, plain, special, east

VARIABLE awake  \* the part that the behaviour follows

enterpriseVars == <<vars, cardVars, awake>>

-----------------------------------------------------------------------------
(* The workflow: two stores, two computers, a run and a migrated history *)

StoreOfOneKey == k1 :> s2
\* The second page repeats the record of the first.
TwoPages == 1 :> l1 @@ 2 :> l1
TwoPageKeys == 1 :> k1 @@ 2 :> k1
Change(kind, to, state) == [kind |-> kind, to |-> to, state |-> state]
SomeChanges == {Change("configuration", {s1}, "none"),
                Change("configuration", {s1, s2}, "none"),
                Change("integration", {s2}, "none"),
                Change("authorization", {s1}, "none"),
                Change("control", {}, "paused"),
                Change("control", {}, "active")}

\* The last chore is spent before an action begins, or not at all.
FewActions == chores = MaxChores => \A a \in Actions : actions[a].state = "none"

-----------------------------------------------------------------------------
(* Cost cards: sheets of one and two cards, and one whose rows disagree *)

Row(c, fields, recipe, stores, item) ==
  [card |-> c, fields |-> fields, recipe |-> recipe, details |-> 0, stores |-> stores,
   item |-> item]

MCSheets == {
  <<Row(soup, 0, plain, {}, 1), Row(rice, 0, special, {east}, 1)>>,
  <<Row(soup, 0, plain, {}, 1)>>,
  <<Row(soup, 1, plain, {}, 1)>>,
  <<Row(soup, 0, plain, {}, 1), Row(soup, 1, plain, {}, 1)>>}

Busy == {w \in Workers : builders[w].pc # "idle"}

\* One worker is at work while a download goes on, or on a sheet of two rows.
FewWorkers ==
  \/ Cardinality(Busy) <= 1
  \/ /\ reader.pc \notin {"signed", "download", "again"}
     /\ \A w \in Busy : Len(uploads[builders[w].run].sheet) = 1

-----------------------------------------------------------------------------
Few == FewActions /\ FewWorkers
Interchangeable ==
  Permutations({a1, a2}) \cup Permutations(Workers) \cup Permutations(CardRuns)

EnterpriseInit == awake \in {"workflow", "cards"} /\ Init /\ CardInit

EnterpriseNext ==
  \/ awake = "workflow" /\ Next /\ UNCHANGED <<cardVars, awake>>
  \/ awake = "cards" /\ CardNext /\ UNCHANGED <<vars, awake>>

EnterpriseSpec == EnterpriseInit /\ [][EnterpriseNext]_enterpriseVars
=============================================================================
