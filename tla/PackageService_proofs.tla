----------------------- MODULE PackageService_proofs -----------------------
(***************************************************************************)
(* Theorems of PackageService for every package graph and every bound.     *)
(*                                                                         *)
(* Part 1: type correctness, with foreign writers and unreadable receipts. *)
(* Part 2: the transaction invariant of a state directory that only the    *)
(* service writes (Undisturbed), the safety properties that follow, and    *)
(* the implementation of PackageDatabase.                                  *)
(* Part 3: consistency, with foreign writers and unreadable receipts.      *)
(***************************************************************************)
EXTENDS PackageService, TLAPS, FiniteSetTheorems

-----------------------------------------------------------------------------
(* Facts about orders *)

(* An order of a plan is a sequence of its receipts, each exactly once, and     *)
(* names at least the root.                                                     *)
LEMMA OrderOfPlan ==
  ASSUME NEW root \in Receipt, NEW new \in SUBSET Receipt,
         NEW o \in Orders(new \cup {root})
  PROVE  /\ Len(o) \in Nat \ {0} /\ DOMAIN o = 1..Len(o)
         /\ o \in [1..Len(o) -> new \cup {root}]
         /\ \A i, j \in DOMAIN o : o[i] = o[j] => i = j
         /\ \A r \in new \cup {root} : \E i \in DOMAIN o : o[i] = r
<1> DEFINE S == new \cup {root}
           n == Cardinality(S)
<1>1. IsFiniteSet(S)
  BY GraphAssumption, FS_Subset
<1>2. n \in Nat
  BY <1>1, FS_CardinalityType
<1>3. /\ o \in [1..n -> S]
      /\ \A i, j \in DOMAIN o : o[i] = o[j] => i = j
      /\ \A r \in S : \E i \in DOMAIN o : o[i] = r
  BY DEF Orders
<1> HIDE DEF S, n
<1>4. o \in Seq(S) /\ Len(o) = n
  BY <1>2, <1>3
<1>5. root \in S
  BY DEF S
<1>6. n # 0
  BY <1>2, <1>3, <1>5
<1> QED BY <1>2, <1>3, <1>4, <1>6 DEF S

-----------------------------------------------------------------------------
(* Part 1: types *)

(* Where the lock holder is, enough to know that graph[step] is an entry and    *)
(* that journal is a receipt when they are used.                                *)
Located ==
  /\ phase \in {"idle", "ready"} => applied = {}
  /\ phase = "undo" => graph # << >>
  /\ phase \in {"withdraw", "erase", "reinstate"} => journal # Absent
  /\ phase \in {"record", "deploy", "restore", "forward"} => step \in DOMAIN graph

TypeInv == TypeOK /\ Located

LEMMA GraphTypes ==
  ASSUME TypeOK
  PROVE  /\ Len(graph) \in Nat /\ DOMAIN graph = 1..Len(graph)
         /\ graph # << >> => Len(graph) > 0
         /\ \A i \in DOMAIN graph :
              /\ graph[i].new \in Receipt
              /\ graph[i].old \in Receipt \cup {Absent}
              /\ Identity[graph[i].new] \in Artifact
              /\ Pkg(graph[i]) \in Package
<1>1. graph \in Seq(Entry)
  BY DEF TypeOK
<1>2. Len(graph) \in Nat /\ DOMAIN graph = 1..Len(graph)
  BY <1>1
<1>3. graph # << >> => Len(graph) > 0
  BY <1>1
<1>4. ASSUME NEW i \in DOMAIN graph
      PROVE  graph[i].new \in Receipt /\ graph[i].old \in Receipt \cup {Absent}
  <2>1. graph[i] \in Entry
    BY <1>1
  <2> QED BY <2>1 DEF Entry
<1> QED BY <1>2, <1>3, <1>4, GraphAssumption DEF Pkg

LEMMA InitTypeInv == Init => TypeInv
<1> SUFFICES ASSUME Init PROVE TypeInv
  OBVIOUS
<1>1. graph \in Seq(Entry) /\ applied \in SUBSET (DOMAIN graph)
  BY DEF Init
<1> QED BY <1>1 DEF Init, TypeInv, TypeOK, Located, Phases

(* Writing, removing and putting back a service receipt, done or failed. *)
LEMMA ReceiptEffectTypes ==
  ASSUME TypeOK, ServiceAssumption, NEW p \in Package, NEW r \in Receipt \cup {Absent},
         \/ WriteReceipt(p, r) \/ WriteReceiptFails(p, r)
         \/ RemoveReceipt(p) \/ RemoveReceiptFails(p)
  PROVE  /\ svc' \in [Package -> Receipt \cup {Absent}]
         /\ litter' \in SUBSET Package
         /\ faults' \in Nat
BY DEF TypeOK, WriteReceipt, WriteReceiptFails, RemoveReceipt, RemoveReceiptFails, Spend

LEMMA SpendTypes == TypeOK /\ Spend => faults' \in Nat
BY DEF TypeOK, Spend

LEMMA ExitTypes ==
  ASSUME Exit
  PROVE  /\ phase' = "idle" /\ phase' \in Phases /\ step' \in Nat
         /\ applied' = {} /\ recovering' \in BOOLEAN /\ mine' \in SUBSET Package
<1>1. phase' = "idle" /\ step' = 0 /\ applied' = {} /\ recovering' = FALSE /\ mine' = {}
  BY DEF Exit, Goto
<1>2. mine' \in SUBSET Package
  BY <1>1
<1>3. recovering' \in BOOLEAN
  BY <1>1
<1>4. phase' \in Phases /\ step' \in Nat
  BY <1>1 DEF Phases
<1> QED BY <1>1, <1>2, <1>3, <1>4

(* NextEntry stays inside the graph. *)
LEMMA NextEntryTypes ==
  ASSUME TypeOK, step \in DOMAIN graph, graph # << >>,
         NEW ph \in {"record", "restore", "forward"}, NextEntry(ph, "clear")
  PROVE  /\ phase' \in {ph, "clear"} /\ step' \in Nat
         /\ phase' = ph => step' \in DOMAIN graph
BY GraphTypes DEF NextEntry, Goto, TypeOK

(* Every action keeps the types and stays located.  Each step lists the part    *)
(* of the state its action changes; the rest is UNCHANGED.                      *)
LEMMA TypeInvNext ==
  ASSUME TypeInv, [Next]_vars
  PROVE  TypeInv'
<1> USE GraphAssumption, ServiceAssumption
<1> USE DEF TypeInv
<1>0. CASE UNCHANGED vars
  BY <1>0 DEF TypeOK, Located, vars, durable, volatile
<1>1. CASE OpenClean
  BY <1>1 DEF OpenClean, Goto, TypeOK, Located, Phases, durable
<1>2. CASE RecoverSingle
  <2>1. (Open("reinstate", 0, {}) \/ Open("withdraw", 0, {})) /\ journal # Absent
    BY <1>2 DEF RecoverSingle
  <2>2. /\ phase' \in {"reinstate", "withdraw"} /\ step' = 0
        /\ applied' = {} /\ recovering' = TRUE
        /\ UNCHANGED <<svc, bin, journal, graph, litter, mine, faults, foreign>>
    BY <2>1 DEF Open, Goto, durable
  <2>3. applied' \in SUBSET (DOMAIN graph)
    BY <2>2
  <2> QED BY <2>1, <2>2, <2>3 DEF TypeOK, Located, Phases
<1>3. CASE RecoverGraph
  <2>1. PICK ph \in {"forward", "undo"}, undo \in SUBSET (DOMAIN graph) :
          Open(ph, IF ph = "forward" THEN 1 ELSE 0, undo)
    BY <1>3 DEF RecoverGraph
  <2>2. graph # << >> /\ 1 \in DOMAIN graph
    BY <1>3, GraphTypes DEF RecoverGraph
  <2> QED BY <2>1, <2>2 DEF Open, Goto, TypeOK, Located, Phases, durable
<1>4. CASE Refuse
  BY <1>4 DEF Refuse, TypeOK, Located, vars, durable, volatile
<1>5. CASE Decline
  BY <1>5 DEF Decline, Exit, Goto, TypeOK, Located, Phases, durable
<1>6. CASE InstallOrUpdate
  <2>0. PICK root \in Receipt : \E new \in SUBSET Missing(root) :
          \E o \in Orders(new \cup {root}) : BeginGraph(root, o)
    BY <1>6 DEF InstallOrUpdate
  <2>01. PICK new \in SUBSET Missing(root) :
          \E o \in Orders(new \cup {root}) : BeginGraph(root, o)
    BY <2>0
  <2>1. PICK o \in Orders(new \cup {root}) : BeginGraph(root, o)
    BY <2>01
  <2>2. new \in SUBSET Receipt
    BY DEF Missing
  <2>3. /\ Len(o) \in Nat \ {0} /\ o \in [1..Len(o) -> new \cup {root}]
    BY <2>2, OrderOfPlan
  <2> DEFINE entries == [i \in 1..Len(o) |-> [old |-> svc[PackageOf[o[i]]], new |-> o[i]]]
  <2>4. entries \in Seq(Entry) /\ entries # << >> /\ 1 \in DOMAIN entries
    <3>1. ASSUME NEW i \in 1..Len(o) PROVE entries[i] \in Entry
      <4>1. o[i] \in Receipt /\ svc[PackageOf[o[i]]] \in Receipt \cup {Absent}
        <5>1. o[i] \in Receipt
          BY <2>2, <2>3
        <5>2. PackageOf[o[i]] \in Package
          BY <5>1
        <5> QED BY <5>1, <5>2 DEF TypeOK
      <4> QED BY <4>1 DEF Entry
    <3> QED BY <2>3, <3>1
  <2>5. applied = {} /\ applied' = {}
    BY <1>6, <2>1 DEF InstallOrUpdate, BeginGraph, Located, Exit
  <2> HIDE DEF entries
  <2>6. \/ graph' = entries /\ phase' = "record" /\ step' = 1 /\ faults' = faults
           /\ mine' = mine /\ recovering' = FALSE
        \/ graph' \in {graph, entries} /\ Exit /\ Spend
    BY <2>1 DEF BeginGraph, Goto, entries
  <2>7. UNCHANGED <<svc, bin, journal, litter, foreign>>
    BY <2>1 DEF BeginGraph
  <2>8. CASE graph' \in {graph, entries} /\ Exit /\ Spend
    <3>1. graph' \in Seq(Entry)
      BY <2>4, <2>8 DEF TypeOK
    <3> QED BY <2>7, <2>8, <3>1, ExitTypes, SpendTypes DEF TypeOK, Located
  <2>9. CASE graph' = entries /\ phase' = "record" /\ step' = 1 /\ faults' = faults
             /\ mine' = mine /\ recovering' = FALSE
    BY <2>4, <2>5, <2>7, <2>9 DEF TypeOK, Located, Phases
  <2> QED BY <2>6, <2>8, <2>9
<1>7. CASE Remove
  <2>1. PICK p \in Package : BeginRemove(p)
    BY <1>7 DEF Remove
  <2>2. UNCHANGED <<svc, bin, graph, litter, foreign>> /\ journal' \in Receipt \cup {Absent}
    BY <2>1 DEF BeginRemove, TypeOK
  <2>3. CASE Exit /\ Spend
    BY <2>2, <2>3, ExitTypes, SpendTypes DEF TypeOK, Located
  <2>4. CASE /\ Goto("withdraw", 0) /\ journal' # Absent
             /\ recovering' = FALSE /\ UNCHANGED <<applied, mine, faults>>
    BY <2>2, <2>4 DEF TypeOK, Located, Goto, Phases
  <2> QED BY <2>1, <2>3, <2>4 DEF BeginRemove
<1>8. CASE RollForward
  <2> DEFINE e == graph[step]
  <2>1. step \in DOMAIN graph /\ graph # << >> /\ e.new \in Receipt /\ Pkg(e) \in Package
    BY <1>8, GraphTypes DEF RollForward, Located, TypeOK
  <2> HIDE DEF e
  <2>2. \/ WriteReceipt(Pkg(e), e.new) /\ NextEntry("forward", "clear")
           /\ UNCHANGED <<applied, recovering, mine>>
        \/ WriteReceiptFails(Pkg(e), e.new) /\ Exit
    BY <1>8 DEF RollForward, e
  <2>3. /\ svc' \in [Package -> Receipt \cup {Absent}]
        /\ litter' \in SUBSET Package /\ faults' \in Nat
    BY <2>1, <2>2, ReceiptEffectTypes
  <2>4. UNCHANGED <<bin, journal, graph, foreign>>
    BY <1>8 DEF RollForward
  <2>5. CASE NextEntry("forward", "clear") /\ UNCHANGED <<applied, recovering, mine>>
    BY <2>1, <2>3, <2>4, <2>5, NextEntryTypes DEF TypeOK, Located, Phases
  <2>6. CASE Exit
    BY <2>3, <2>4, <2>6 DEF TypeOK, Located, Phases, Exit, Goto
  <2> QED BY <2>2, <2>5, <2>6
<1>9. CASE Record
  <2> DEFINE e == graph[step]
  <2>1. step \in DOMAIN graph /\ graph # << >> /\ e.new \in Receipt /\ Pkg(e) \in Package
    BY <1>9, GraphTypes DEF Record, Located, TypeOK
  <2> HIDE DEF e
  <2>2. \/ /\ WriteReceipt(Pkg(e), e.new) /\ mine' = mine
           /\ Goto("deploy", step) \/ NextEntry("record", "clear")
        \/ /\ WriteReceiptFails(Pkg(e), e.new) /\ mine' = mine \cup (litter' \ litter)
           /\ Goto("undo", 0)
    BY <1>9 DEF Record, Abort, e
  <2>3. /\ svc' \in [Package -> Receipt \cup {Absent}]
        /\ litter' \in SUBSET Package /\ faults' \in Nat
    BY <2>1, <2>2, ReceiptEffectTypes
  <2>4. UNCHANGED <<bin, journal, graph, applied, recovering, foreign>>
    BY <1>9 DEF Record
  <2>5. CASE mine' = mine /\ NextEntry("record", "clear")
    BY <2>1, <2>3, <2>4, <2>5, NextEntryTypes DEF TypeOK, Located, Phases
  <2>6. CASE mine' = mine /\ Goto("deploy", step)
    BY <2>1, <2>3, <2>4, <2>6 DEF TypeOK, Located, Phases, Goto
  <2>7. CASE mine' = mine \cup (litter' \ litter) /\ Goto("undo", 0)
    BY <2>1, <2>3, <2>4, <2>7 DEF TypeOK, Located, Phases, Goto
  <2> QED BY <2>2, <2>5, <2>6, <2>7
<1>10. CASE Deploy
  <2> DEFINE e == graph[step]
             new == [bin EXCEPT ![Pkg(e)] = Identity[e.new]]
  <2>1. step \in DOMAIN graph /\ graph # << >> /\ Identity[e.new] \in Artifact
    BY <1>10, GraphTypes DEF Deploy, Located, TypeOK
  <2>2. new \in [Package -> Artifact \cup {Absent}]
    BY <2>1 DEF TypeOK
  <2>3. /\ bin' \in {bin, new} /\ applied' \in {applied, applied \cup {step}}
        /\ faults' \in Nat
        /\ NextEntry("record", "clear") \/ Goto("undo", 0)
    BY <1>10 DEF Deploy, NextDeployed, Abort, Spend, TypeOK
  <2>4. bin' \in [Package -> Artifact \cup {Absent}] /\ applied' \in SUBSET (DOMAIN graph)
    BY <2>1, <2>2, <2>3 DEF TypeOK
  <2>5. UNCHANGED <<svc, journal, graph, litter, recovering, mine, foreign>>
    BY <1>10 DEF Deploy
  <2>6. CASE NextEntry("record", "clear")
    BY <2>1, <2>3, <2>4, <2>5, <2>6, NextEntryTypes DEF TypeOK, Located, Phases
  <2>7. CASE Goto("undo", 0)
    BY <2>1, <2>3, <2>4, <2>5, <2>7 DEF TypeOK, Located, Phases, Goto
  <2> QED BY <2>3, <2>6, <2>7
<1>11. CASE Undo
  <2>1. PICK last \in applied :
          /\ bin' \in {bin, [bin EXCEPT ![Pkg(graph[last])] = Absent]}
          /\ \/ applied' = applied \ {last} /\ UNCHANGED <<phase, step, recovering, mine, faults>>
             \/ Exit /\ (Spend \/ faults' = faults)
    BY <1>11 DEF Undo
  <2>2. UNCHANGED <<svc, journal, graph, litter, foreign>> /\ phase = "undo"
    BY <1>11 DEF Undo
  <2>3. bin' \in [Package -> Artifact \cup {Absent}]
    BY <2>1 DEF TypeOK
  <2>4. CASE Exit
    BY <2>1, <2>2, <2>3, <2>4, ExitTypes, SpendTypes DEF TypeOK, Located
  <2>5. CASE applied' = applied \ {last} /\ UNCHANGED <<phase, step, recovering, mine, faults>>
    BY <2>2, <2>3, <2>5 DEF TypeOK, Located
  <2> QED BY <2>1, <2>4, <2>5
<1>12. CASE UndoDone
  <2>1. 1 \in DOMAIN graph
    BY <1>12, GraphTypes DEF UndoDone, Located
  <2> QED BY <1>12, <2>1 DEF UndoDone, Goto, TypeOK, Located, Phases, durable
<1>13. CASE Restore
  <2> DEFINE e == graph[step]
  <2>1. step \in DOMAIN graph /\ graph # << >> /\ e.old \in Receipt \cup {Absent}
        /\ Pkg(e) \in Package
    BY <1>13, GraphTypes DEF Restore, Located, TypeOK
  <2> HIDE DEF e
  <2>2. \/ /\ PutBack(e) /\ NextEntry("restore", "clear")
           /\ UNCHANGED <<applied, recovering, mine>>
        \/ PutBackFails(e) /\ Exit
    BY <1>13 DEF Restore, e
  <2>3. /\ svc' \in [Package -> Receipt \cup {Absent}]
        /\ litter' \in SUBSET Package /\ faults' \in Nat
    BY <2>1, <2>2, ReceiptEffectTypes DEF PutBack, PutBackFails
  <2>4. UNCHANGED <<bin, journal, graph, foreign>>
    BY <1>13 DEF Restore
  <2>5. CASE NextEntry("restore", "clear") /\ UNCHANGED <<applied, recovering, mine>>
    BY <2>1, <2>3, <2>4, <2>5, NextEntryTypes DEF TypeOK, Located, Phases
  <2>6. CASE Exit
    BY <2>3, <2>4, <2>6 DEF TypeOK, Located, Phases, Exit, Goto
  <2> QED BY <2>2, <2>5, <2>6
<1>14. CASE Withdraw
  <2>1. UNCHANGED <<bin, journal, graph, foreign>> /\ phase = "withdraw"
    BY <1>14 DEF Withdraw
  <2>2. /\ svc' \in [Package -> Receipt \cup {Absent}]
        /\ litter' \in SUBSET Package /\ faults' \in Nat
    BY <1>14 DEF Withdraw, RemoveReceipt, RemoveReceiptFails, Spend, TypeOK
  <2>3. CASE Exit
    BY <2>1, <2>2, <2>3, ExitTypes DEF TypeOK, Located
  <2>4. CASE Goto(IF recovering THEN "clear" ELSE "erase", 0) /\ UNCHANGED <<applied, recovering, mine>>
    BY <2>1, <2>2, <2>4 DEF TypeOK, Located, Goto, Phases
  <2> QED BY <1>14, <2>3, <2>4 DEF Withdraw
<1>15. CASE Erase
  <2>1. UNCHANGED <<svc, journal, graph, litter, foreign>> /\ phase = "erase"
    BY <1>15 DEF Erase
  <2>2. bin' \in [Package -> Artifact \cup {Absent}] /\ faults' \in Nat
    BY <1>15 DEF Erase, Spend, TypeOK
  <2>3. CASE Exit
    BY <2>1, <2>2, <2>3, ExitTypes DEF TypeOK, Located
  <2>4. CASE /\ Goto("clear", 0) \/ Goto("reinstate", 0)
             /\ UNCHANGED <<applied, recovering, mine>>
    BY <2>1, <2>2, <2>4 DEF TypeOK, Located, Goto, Phases
  <2> QED BY <1>15, <2>3, <2>4 DEF Erase
<1>16. CASE Reinstate
  <2>1. UNCHANGED <<bin, journal, graph, foreign>> /\ phase = "reinstate"
    BY <1>16 DEF Reinstate
  <2>2. PackageOf[journal] \in Package
    BY <2>1 DEF TypeOK, Located
  <2>3. /\ svc' \in [Package -> Receipt \cup {Absent}]
        /\ litter' \in SUBSET Package /\ faults' \in Nat
    <3>1. journal \in Receipt \cup {Absent} /\ TypeOK
      BY DEF TypeOK
    <3>2. \/ WriteReceipt(PackageOf[journal], journal)
          \/ WriteReceiptFails(PackageOf[journal], journal)
      BY <1>16 DEF Reinstate
    <3> QED BY <2>2, <3>1, <3>2, ReceiptEffectTypes
  <2>4. CASE Exit
    BY <2>1, <2>2, <2>3, <2>4, ExitTypes DEF TypeOK, Located
  <2>5. CASE Goto("clear", 0) /\ UNCHANGED <<applied, recovering, mine>>
    BY <2>1, <2>2, <2>3, <2>5 DEF TypeOK, Located, Goto, Phases
  <2> QED BY <1>16, <2>4, <2>5 DEF Reinstate
<1>17. CASE Clear
  <2>1. /\ journal' \in Receipt \cup {Absent} /\ graph' \in {graph, << >>}
        /\ faults' \in Nat /\ step' \in Nat /\ phase' \in {"ready", "idle"}
        /\ mine' \in {mine, {}} /\ recovering' = FALSE /\ applied' = {}
    BY <1>17 DEF Clear, Spend, Exit, Goto, TypeOK
  <2>2. UNCHANGED <<svc, bin, litter, foreign>>
    BY <1>17 DEF Clear
  <2>3. graph' \in Seq(Entry)
    <3>1. << >> \in Seq(Entry)
      OBVIOUS
    <3> QED BY <2>1, <3>1 DEF TypeOK
  <2> QED BY <2>1, <2>2, <2>3 DEF TypeOK, Located, Phases
<1>18. CASE Kill
  BY <1>18, ExitTypes, SpendTypes DEF Kill, TypeOK, Located, durable
<1>19. CASE ForeignWrite
  <2>1. PICK p \in Package :
          \E a \in {Absent} \cup {Identity[r] : r \in {s \in Receipt : PackageOf[s] = p}} :
            bin' = [bin EXCEPT ![p] = a]
    BY <1>19 DEF ForeignWrite
  <2>2. PICK a \in Artifact \cup {Absent} : bin' = [bin EXCEPT ![p] = a]
    BY <2>1
  <2> QED BY <1>19, <2>1, <2>2 DEF ForeignWrite, TypeOK, Located, Phases, volatile
<1> QED
  BY <1>0, <1>1, <1>2, <1>3, <1>4, <1>5, <1>6, <1>7, <1>8, <1>9, <1>10, <1>11, <1>12,
     <1>13, <1>14, <1>15, <1>16, <1>17, <1>18, <1>19 DEF Next, Recover, Step

(* Type correctness: whatever fails, dies or writes from outside, the receipt   *)
(* directories, the journals and the walk over the graph keep their shape.      *)
THEOREM TypeCorrect == Spec => []TypeOK
<1>1. Init => TypeInv
  BY InitTypeInv
<1>2. TypeInv /\ [Next]_vars => TypeInv'
  BY TypeInvNext
<1>3. TypeInv => TypeOK
  BY DEF TypeInv
<1> QED BY <1>1, <1>2, <1>3, PTL DEF Spec

-----------------------------------------------------------------------------
(* Part 2: transactions on a state directory that only the service writes *)

Undisturbed == MaxForeign = 0 /\ UnreadableReceipts = FALSE

(* TransactionInv while a graph journal is pending, without GraphPhase. *)
ReceiptsInPlace == \A p \in Package : svc[p] # Absent => PackageOf[svc[p]] = p
RootLast == Mutates(Root) /\ NewSide(Len(graph)) => AllNew

GraphSteady ==
  /\ graph # << >> /\ journal = Absent
  /\ ReceiptsInPlace
  /\ \A p \in Package : InGraph(p) \/ Agree(p)
  /\ GraphShape
  /\ \A i \in DOMAIN graph : OldSide(i) \/ NewSide(i)
  /\ \A i \in DOMAIN graph : WroteOld(i) \/ WroteNew(i)
  /\ RootLast
  /\ OwnedInOrder

LEMMA GraphPending ==
  (graph # << >> /\ TransactionInv) <=> (GraphSteady /\ GraphPhase)
BY DEF TransactionInv, GraphSteady, GraphInv, JournalInv, Pending, Touched,
       ReceiptsInPlace, RootLast

LEMMA GraphPendingNext ==
  (GraphSteady /\ GraphPhase)' => TransactionInv'
BY DEF TransactionInv, GraphSteady, GraphInv, JournalInv, Pending, Touched,
       ReceiptsInPlace, RootLast

(* A step that keeps the journal and the ownership receipts, and at most gives  *)
(* one package of the graph the service receipt of one of its sides.            *)
LEMMA ServiceStep ==
  ASSUME TypeOK, GraphSteady, UNCHANGED <<graph, journal, bin>>,
         NEW k \in DOMAIN graph, NEW r \in {graph[k].old, graph[k].new},
         svc' \in {svc, [svc EXCEPT ![Pkg(graph[k])] = r]}
  PROVE  /\ GraphSteady'
         /\ \A i \in DOMAIN graph :
              /\ NewSide(i)' <=> NewSide(i)
              /\ OldSide(i)' <=> OldSide(i)
              /\ Mutates(graph[i])' <=> Mutates(graph[i])
              /\ i # k => (WroteNew(i)' <=> WroteNew(i)) /\ (WroteOld(i)' <=> WroteOld(i))
              /\ svc' = svc => (WroteNew(i)' <=> WroteNew(i)) /\ (WroteOld(i)' <=> WroteOld(i))
         /\ svc' = [svc EXCEPT ![Pkg(graph[k])] = r] =>
              (r = graph[k].new => WroteNew(k)') /\ (r = graph[k].old => WroteOld(k)')
<1> DEFINE q == Pkg(graph[k])
<1>0. svc \in [Package -> Receipt \cup {Absent}]
  BY DEF TypeOK
<1>1. \A i \in DOMAIN graph : Pkg(graph[i]) \in Package /\ (Pkg(graph[i]) = q => i = k)
  BY GraphTypes DEF GraphSteady, GraphShape
<1>2. \A p \in Package : p # q => svc'[p] = svc[p]
  BY <1>0
<1>3. svc'[q] \in {svc[q], r}
  BY <1>0, <1>1
<1>4. r # Absent => PackageOf[r] = q
  BY DEF GraphSteady, GraphShape, Pkg
<1>5. \A p \in Package : ~InGraph(p) => p # q /\ ~InGraph(p)'
  BY DEF InGraph
<1>6. \A p \in Package : InGraph(p)' <=> InGraph(p)
  BY DEF InGraph
<1>7. ReceiptsInPlace'
  BY <1>1, <1>2, <1>3, <1>4 DEF GraphSteady, ReceiptsInPlace
<1>8. \A p \in Package : (InGraph(p) \/ Agree(p))'
  BY <1>2, <1>5, <1>6 DEF GraphSteady, Agree
<1>9. Untouched' = Untouched
  BY <1>2, <1>5, <1>6 DEF Untouched
<1>10. GraphShape'
  BY <1>9 DEF GraphSteady, GraphShape, BeforeGraph, AfterGraph, Supplied
<1>11. ASSUME NEW i \in DOMAIN graph
       PROVE  /\ NewSide(i)' <=> NewSide(i)
              /\ OldSide(i)' <=> OldSide(i)
              /\ Mutates(graph[i])' <=> Mutates(graph[i])
              /\ i # k => (WroteNew(i)' <=> WroteNew(i)) /\ (WroteOld(i)' <=> WroteOld(i))
              /\ svc' = svc => (WroteNew(i)' <=> WroteNew(i)) /\ (WroteOld(i)' <=> WroteOld(i))
  BY <1>1, <1>2 DEF NewSide, OldSide, WroteNew, WroteOld, Mutates
<1>12. svc' = [svc EXCEPT ![q] = r] =>
         (r = graph[k].new => WroteNew(k)') /\ (r = graph[k].old => WroteOld(k)')
  BY <1>0, <1>1 DEF WroteNew, WroteOld
<1>13. RootLast'
  BY DEF GraphSteady, RootLast, AllNew, NewSide, Mutates, Root
<1>14. \A i \in DOMAIN graph : OldSide(i)' \/ NewSide(i)'
  BY <1>11 DEF GraphSteady
<1>15. \A i \in DOMAIN graph : WroteOld(i)' \/ WroteNew(i)'
  BY <1>11, <1>12 DEF GraphSteady
<1>16. OwnedInOrder'
  BY <1>11 DEF GraphSteady, OwnedInOrder
<1> QED
  BY <1>7, <1>8, <1>10, <1>11, <1>12, <1>13, <1>14, <1>15, <1>16 DEF GraphSteady

(* A step that moves the ownership receipt of one package of the graph to one   *)
(* of its sides, and keeps the service receipts and the journal.                *)
LEMMA OwnerStep ==
  ASSUME TypeOK, GraphSteady, UNCHANGED <<graph, journal, svc>>,
         NEW k \in DOMAIN graph,
         NEW a \in {IdentityOf(graph[k].old), Identity[graph[k].new]},
         bin' = [bin EXCEPT ![Pkg(graph[k])] = a],
         RootLast', OwnedInOrder'
  PROVE  /\ GraphSteady'
         /\ \A i \in DOMAIN graph :
              /\ WroteNew(i)' <=> WroteNew(i)
              /\ WroteOld(i)' <=> WroteOld(i)
              /\ Mutates(graph[i])' <=> Mutates(graph[i])
              /\ i # k => (NewSide(i)' <=> NewSide(i)) /\ (OldSide(i)' <=> OldSide(i))
         /\ a = Identity[graph[k].new] => NewSide(k)'
         /\ a = IdentityOf(graph[k].old) => OldSide(k)'
<1> DEFINE q == Pkg(graph[k])
<1>0. bin \in [Package -> Artifact \cup {Absent}]
  BY DEF TypeOK
<1>1. \A i \in DOMAIN graph : Pkg(graph[i]) \in Package /\ (Pkg(graph[i]) = q => i = k)
  BY GraphTypes DEF GraphSteady, GraphShape
<1>2. \A p \in Package : p # q => bin'[p] = bin[p]
  BY <1>0
<1>3. bin'[q] = a
  BY <1>0, <1>1
<1>4. \A p \in Package : ~InGraph(p) => p # q /\ ~InGraph(p)'
  BY DEF InGraph
<1>5. \A p \in Package : (InGraph(p) \/ Agree(p))'
  BY <1>2, <1>4 DEF GraphSteady, Agree, InGraph
<1>6. GraphShape' /\ ReceiptsInPlace'
  BY DEF GraphSteady, GraphShape, ReceiptsInPlace, BeforeGraph, AfterGraph, Untouched, InGraph,
         Supplied
<1>7. ASSUME NEW i \in DOMAIN graph
      PROVE  /\ WroteNew(i)' <=> WroteNew(i)
             /\ WroteOld(i)' <=> WroteOld(i)
             /\ Mutates(graph[i])' <=> Mutates(graph[i])
             /\ i # k => (NewSide(i)' <=> NewSide(i)) /\ (OldSide(i)' <=> OldSide(i))
  BY <1>1, <1>2 DEF NewSide, OldSide, WroteNew, WroteOld, Mutates
<1>8. /\ a = Identity[graph[k].new] => NewSide(k)'
      /\ a = IdentityOf(graph[k].old) => OldSide(k)'
  BY <1>3 DEF NewSide, OldSide
<1>9. \A i \in DOMAIN graph : OldSide(i)' \/ NewSide(i)'
  BY <1>7, <1>8 DEF GraphSteady
<1>10. \A i \in DOMAIN graph : WroteOld(i)' \/ WroteNew(i)'
  BY <1>7 DEF GraphSteady
<1> QED
  BY <1>5, <1>6, <1>7, <1>8, <1>9, <1>10 DEF GraphSteady

(* With every entry on one side in both directories, the journal can go.        *)
LEMMA GraphClosed ==
  ASSUME TypeOK, GraphSteady,
         \/ \A i \in DOMAIN graph : NewSide(i) /\ WroteNew(i)
         \/ \A i \in DOMAIN graph : OldSide(i) /\ WroteOld(i)
  PROVE  Consistent(Installed) /\ \A p \in Package : Agree(p)
<1>1. \A i \in DOMAIN graph : Pkg(graph[i]) \in Package /\ graph[i].new # Absent
  BY GraphTypes, GraphAssumption
<1>2. \A p \in Package : Agree(p)
  BY <1>1 DEF GraphSteady, InGraph, Agree, NewSide, OldSide, WroteNew, WroteOld, IdentityOf
<1>3. CASE \A i \in DOMAIN graph : NewSide(i) /\ WroteNew(i)
  <2>1. Installed = AfterGraph
    BY <1>1, <1>3 DEF Installed, AfterGraph, Untouched, InGraph, WroteNew
  <2> QED BY <1>2, <2>1 DEF GraphSteady, GraphShape
<1>4. CASE \A i \in DOMAIN graph : OldSide(i) /\ WroteOld(i)
  <2>1. Installed = BeforeGraph
    BY <1>1, <1>4 DEF Installed, BeforeGraph, Untouched, InGraph, WroteOld
  <2> QED BY <1>2, <2>1 DEF GraphSteady, GraphShape
<1> QED BY <1>3, <1>4

(* A step that only moves control: the receipts and the journal stay.          *)
LEMMA ControlStep ==
  ASSUME TypeOK, GraphSteady, UNCHANGED <<graph, journal, bin, svc>>
  PROVE  /\ GraphSteady'
         /\ \A i \in DOMAIN graph :
              /\ NewSide(i)' <=> NewSide(i)
              /\ OldSide(i)' <=> OldSide(i)
              /\ Mutates(graph[i])' <=> Mutates(graph[i])
              /\ WroteNew(i)' <=> WroteNew(i)
              /\ WroteOld(i)' <=> WroteOld(i)
<1>1. PICK k \in DOMAIN graph : TRUE
  BY GraphTypes DEF GraphSteady
<1>2. graph[k].new \in {graph[k].old, graph[k].new} /\ svc' \in {svc, [svc EXCEPT ![Pkg(graph[k])] = graph[k].new]}
  OBVIOUS
<1> QED BY ONLY <1>2, TypeOK, GraphSteady, UNCHANGED <<graph, journal, bin, svc>>, ServiceStep

(* A process that returns or dies while a graph is pending leaves it pending.   *)
LEMMA ExitKeepsGraph ==
  ASSUME GraphSteady', Exit
  PROVE  TransactionInv'
<1>1. GraphPhase'
  BY DEF Exit, Goto, GraphPhase
<1> QED BY <1>1, GraphPendingNext

(* A non-mutating entry is on both sides at once. *)
LEMMA SameIdentity ==
  ASSUME TypeOK, NEW i \in DOMAIN graph, ~Mutates(graph[i])
  PROVE  OldSide(i) <=> NewSide(i)
BY GraphTypes, GraphAssumption DEF Mutates, OldSide, NewSide, IdentityOf

(* ... and a mutating one never is. *)
LEMMA OtherIdentity ==
  ASSUME TypeOK, NEW i \in DOMAIN graph, Mutates(graph[i])
  PROVE  ~(OldSide(i) /\ NewSide(i))
BY GraphTypes, GraphAssumption DEF Mutates, OldSide, NewSide, IdentityOf

(* What the applied entries are when an install gives up at entry `step`.      *)
LEMMA AbortSides ==
  ASSUME TypeOK, GraphSteady, GraphPhase, phase \in {"record", "deploy"}
  PROVE  /\ \A i \in applied : NewSide(i) /\ graph[i].old = Absent
         /\ \A i \in DOMAIN graph \ applied : OldSide(i)
<1>1. step \in DOMAIN graph /\ DOMAIN graph = 1..Len(graph) /\ Len(graph) \in Nat
  BY GraphTypes DEF GraphPhase
<1>2. \A i \in applied : i \in DOMAIN graph /\ i < step
  BY DEF GraphPhase, TypeOK
<1>3. \A i \in applied : NewSide(i)
  BY <1>2 DEF GraphPhase
<1>4. \A i \in applied : graph[i].old = Absent
  BY <1>1, <1>2 DEF GraphSteady, GraphShape
<1>5. ASSUME NEW i \in DOMAIN graph \ applied PROVE OldSide(i)
  <2>1. CASE i >= step
    BY <2>1 DEF GraphPhase
  <2>2. CASE i < step
    <3>1. NewSide(i) /\ ~Mutates(graph[i])
      BY <2>2 DEF GraphPhase
    <3> QED BY <3>1, SameIdentity
  <2> QED BY <1>1, <2>1, <2>2
<1> QED BY <1>3, <1>4, <1>5

-----------------------------------------------------------------------------
(* One lemma per action that meets a pending graph *)

LEMMA RecordKeeps ==
  ASSUME TypeInv, GraphSteady, GraphPhase, Record
  PROVE  TransactionInv'
<1>0. PICK k \in DOMAIN graph : k = step
  BY DEF Record, TypeInv, Located
<1> DEFINE e == graph[k]
<1>1. phase = "record" /\ UNCHANGED <<graph, journal, bin, applied>>
  BY DEF Record
<1>2. DOMAIN graph = 1..Len(graph) /\ Len(graph) \in Nat
  BY GraphTypes DEF TypeInv
<1>3. svc' \in {svc, [svc EXCEPT ![Pkg(e)] = e.new]}
  BY <1>0 DEF Record, WriteReceipt, WriteReceiptFails
<1>4. /\ GraphSteady'
      /\ \A i \in DOMAIN graph :
           /\ NewSide(i)' <=> NewSide(i)
           /\ OldSide(i)' <=> OldSide(i)
           /\ Mutates(graph[i])' <=> Mutates(graph[i])
           /\ i # k => (WroteNew(i)' <=> WroteNew(i))
      /\ svc' = [svc EXCEPT ![Pkg(e)] = e.new] => WroteNew(k)'
  BY <1>1, <1>3, ServiceStep DEF TypeInv
<1>5. /\ \A i \in applied : NewSide(i) /\ graph[i].old = Absent
      /\ \A i \in DOMAIN graph \ applied : OldSide(i)
  BY <1>1, AbortSides DEF TypeInv
<1>6. CASE svc' = [svc EXCEPT ![Pkg(e)] = e.new] /\ Mutates(e) /\ Goto("deploy", k)
  <2>1. GraphPhase'
    BY <1>0, <1>1, <1>4, <1>6 DEF GraphPhase, Goto
  <2> QED BY <1>4, <2>1, GraphPendingNext
<1>7. CASE svc' = [svc EXCEPT ![Pkg(e)] = e.new] /\ ~Mutates(e) /\ NextEntry("record", "clear")
  <2>1. NewSide(k)
    BY <1>0, <1>1, <1>2, <1>7, SameIdentity DEF GraphPhase, TypeInv
  <2>2. \A i \in DOMAIN graph : i <= k => NewSide(i)' /\ WroteNew(i)'
    BY <1>0, <1>1, <1>2, <1>4, <1>7, <2>1 DEF GraphPhase
  <2>3. CASE k < Len(graph) /\ Goto("record", k + 1)
    <3>1. phase' = "record" /\ step' = k + 1 /\ k + 1 \in DOMAIN graph
      BY <1>1, <1>2, <2>3 DEF Goto
    <3>2. \A i \in DOMAIN graph : i < k + 1 <=> i <= k
      BY <1>2
    <3>3. \A i \in DOMAIN graph : i >= k + 1 => OldSide(i)'
      BY <1>0, <1>1, <1>2, <1>4 DEF GraphPhase
    <3>4. \A i \in applied : i <= k /\ Mutates(graph[i])
      BY <1>0, <1>1, <1>2 DEF GraphPhase, TypeInv, TypeOK
    <3>5. \A i \in DOMAIN graph : i <= k /\ Mutates(graph[i]) => i \in applied
      BY <1>0, <1>1, <1>2, <1>7 DEF GraphPhase
    <3>6. \A i \in applied : i \in DOMAIN graph
      BY DEF TypeInv, TypeOK
    <3>7. GraphPhase'
      BY <1>1, <1>4, <2>2, <3>1, <3>2, <3>3, <3>4, <3>5, <3>6 DEF GraphPhase
    <3> QED BY <1>4, <3>7, GraphPendingNext
  <2>4. CASE k = Len(graph) /\ Goto("clear", 0)
    <3>1. GraphPhase'
      BY <1>0, <1>1, <1>2, <2>2, <2>4 DEF GraphPhase, Goto, AllNew
    <3> QED BY <1>4, <3>1, GraphPendingNext
  <2> QED BY <1>0, <1>1, <1>2, <1>7, <2>3, <2>4 DEF NextEntry
<1>8. CASE Goto("undo", 0)
  <2>1. GraphPhase'
    BY <1>1, <1>4, <1>5, <1>8 DEF GraphPhase, Goto, TypeInv, TypeOK
  <2> QED BY <1>4, <2>1, GraphPendingNext
<1> QED
  BY <1>0, <1>6, <1>7, <1>8 DEF Record, WriteReceipt, WriteReceiptFails, Abort

(* The root, the last entry, is deployed when every other entry is new.         *)
LEMMA DeployKeeps ==
  ASSUME TypeInv, GraphSteady, GraphPhase, Undisturbed, Deploy
  PROVE  TransactionInv'
<1>0. PICK k \in DOMAIN graph : k = step
  BY DEF Deploy, TypeInv, Located
<1> DEFINE e == graph[k]
           done == [bin EXCEPT ![Pkg(e)] = Identity[e.new]]
<1>1. phase = "deploy" /\ UNCHANGED <<graph, journal, svc>>
  BY DEF Deploy
<1>2. DOMAIN graph = 1..Len(graph) /\ Len(graph) \in Nat
  BY GraphTypes DEF TypeInv
<1>3. OldSide(k) /\ ~NewSide(k) /\ WroteNew(k) /\ Mutates(e)
  BY <1>0, <1>1, <1>2, OtherIdentity DEF GraphPhase, TypeInv
<1>4. /\ \A i \in applied : NewSide(i) /\ graph[i].old = Absent
      /\ \A i \in DOMAIN graph \ applied : OldSide(i)
  BY <1>1, AbortSides DEF TypeInv
<1>5. \/ bin' = bin /\ applied' = applied /\ Goto("undo", 0)
      \/ bin' = done /\ applied' = applied \cup {k} /\ NextEntry("record", "clear")
  <2>1. (bin[Pkg(e)] = Absent) <=> (e.old = Absent)
    BY <1>3, GraphTypes, GraphAssumption DEF OldSide, IdentityOf, TypeInv
  <2> QED BY <1>0, <1>3, <2>1 DEF Deploy, Replaceable, NextDeployed, Abort, Undisturbed
<1>6. CASE bin' = bin /\ applied' = applied /\ Goto("undo", 0)
  <2>1. /\ GraphSteady'
        /\ \A i \in DOMAIN graph : (NewSide(i)' <=> NewSide(i)) /\ (OldSide(i)' <=> OldSide(i))
    BY <1>1, <1>6, ControlStep DEF TypeInv
  <2>2. GraphPhase'
    BY <1>1, <1>4, <1>6, <2>1 DEF GraphPhase, Goto, TypeInv, TypeOK
  <2> QED BY <2>1, <2>2, GraphPendingNext
<1>7. CASE bin' = done /\ applied' = applied \cup {k} /\ NextEntry("record", "clear")
  <2>1. RootLast'
    <3>1. CASE k < Len(graph)
      <4>1. Pkg(graph[Len(graph)]) # Pkg(e) /\ Len(graph) \in DOMAIN graph
        BY <1>2, <3>1 DEF GraphSteady, GraphShape
      <4>2. OldSide(Len(graph))
        BY <1>0, <1>1, <1>2, <3>1 DEF GraphPhase
      <4>3. bin'[Pkg(graph[Len(graph)])] = bin[Pkg(graph[Len(graph)])]
        BY <1>7, <4>1, GraphTypes DEF TypeInv, TypeOK
      <4>4. ~(Mutates(Root) /\ NewSide(Len(graph)))
        BY <4>1, <4>2, OtherIdentity DEF Root, TypeInv
      <4> QED BY <1>1, <4>3, <4>4 DEF RootLast, NewSide, Mutates, Root
    <3>2. CASE k = Len(graph)
      <4>1. \A i \in DOMAIN graph : i # k => NewSide(i)
        BY <1>0, <1>1, <1>2, <3>2 DEF GraphPhase
      <4>2. \A i \in DOMAIN graph : bin'[Pkg(graph[i])] = Identity[graph[i].new]
        BY <1>2, <1>7, <4>1, GraphTypes DEF GraphSteady, GraphShape, NewSide, TypeInv, TypeOK
      <4> QED BY <1>1, <4>2 DEF RootLast, AllNew, NewSide
    <3> QED BY <1>2, <3>1, <3>2
  <2>0. OwnedInOrder'
    <3>1. ASSUME NEW i \in DOMAIN graph, NEW j \in DOMAIN graph, j < i, NewSide(i)',
                 graph[Len(graph)].old = Absent
          PROVE  NewSide(j)'
      <4>1. \A m \in DOMAIN graph : m # k => (NewSide(m)' <=> NewSide(m))
        BY <1>1, <1>7, GraphTypes DEF GraphSteady, GraphShape, NewSide, TypeInv, TypeOK
      <4>2. NewSide(k)'
        BY <1>1, <1>7, GraphTypes DEF NewSide, TypeInv, TypeOK
      <4>3. CASE i = k
        <5>1. NewSide(j)
          BY <1>0, <1>1, <3>1, <4>3 DEF GraphPhase
        <5> QED BY <1>2, <3>1, <4>1, <4>3, <5>1
      <4>4. CASE i # k
        <5>1. NewSide(j)
          BY <3>1, <4>1, <4>4 DEF GraphSteady, OwnedInOrder
        <5> QED BY <4>1, <4>2, <5>1
      <4> QED BY <4>3, <4>4
    <3> QED BY <1>1, <3>1 DEF OwnedInOrder
  <2>2. /\ GraphSteady'
        /\ \A i \in DOMAIN graph :
             /\ WroteNew(i)' <=> WroteNew(i)
             /\ Mutates(graph[i])' <=> Mutates(graph[i])
             /\ i # k => (NewSide(i)' <=> NewSide(i)) /\ (OldSide(i)' <=> OldSide(i))
        /\ NewSide(k)'
    BY <1>1, <1>7, <2>0, <2>1, OwnerStep DEF TypeInv
  <2>3. \A i \in DOMAIN graph : i <= k => NewSide(i)' /\ WroteNew(i)'
    BY <1>0, <1>1, <1>2, <1>3, <2>2 DEF GraphPhase
  <2>4. CASE k < Len(graph) /\ Goto("record", k + 1)
    <3>1. phase' = "record" /\ step' = k + 1 /\ k + 1 \in DOMAIN graph
      BY <1>2, <2>4 DEF Goto
    <3>2. \A i \in DOMAIN graph : i < k + 1 <=> i <= k
      BY <1>2
    <3>3. \A i \in DOMAIN graph : i >= k + 1 => OldSide(i)'
      BY <1>0, <1>1, <1>2, <2>2 DEF GraphPhase
    <3>4. \A i \in applied' : i \in DOMAIN graph /\ i <= k /\ Mutates(graph[i])
      BY <1>0, <1>1, <1>2, <1>3, <1>7 DEF GraphPhase, TypeInv, TypeOK
    <3>5. \A i \in DOMAIN graph : i <= k /\ Mutates(graph[i]) => i \in applied'
      BY <1>0, <1>1, <1>2, <1>7 DEF GraphPhase
    <3>6. GraphPhase'
      BY <1>1, <2>2, <2>3, <3>1, <3>2, <3>3, <3>4, <3>5 DEF GraphPhase
    <3> QED BY <2>2, <3>6, GraphPendingNext
  <2>5. CASE k = Len(graph) /\ Goto("clear", 0)
    <3>1. GraphPhase'
      BY <1>1, <1>2, <2>3, <2>5 DEF GraphPhase, Goto, AllNew
    <3> QED BY <2>2, <3>1, GraphPendingNext
  <2> QED BY <1>0, <1>2, <1>7, <2>4, <2>5 DEF NextEntry
<1> QED BY <1>5, <1>6, <1>7

(* The latest applied entry is undone first, so the root is never left on the   *)
(* new side without its dependencies.                                           *)
LEMMA UndoKeeps ==
  ASSUME TypeInv, GraphSteady, GraphPhase, Undo
  PROVE  TransactionInv'
<1>0. PICK k \in applied :
        /\ Latest(k)
        /\ \/ /\ bin' = [bin EXCEPT ![Pkg(graph[k])] = Absent]
              /\ \/ applied' = applied \ {k} /\ UNCHANGED <<phase, step>>
                 \/ Exit
           \/ bin' = bin /\ Exit
  BY DEF Undo
<1>1. phase = "undo" /\ UNCHANGED <<graph, journal, svc>>
  BY DEF Undo
<1>2. k \in DOMAIN graph /\ graph[k].old = Absent
  BY <1>1 DEF GraphPhase, TypeInv, TypeOK
<1>3. CASE bin' = bin /\ Exit
  BY <1>1, <1>3, ControlStep, ExitKeepsGraph DEF TypeInv
<1>4. CASE bin' = [bin EXCEPT ![Pkg(graph[k])] = Absent]
  <2> DEFINE n == Len(graph)
  <2>1. DOMAIN graph = 1..n /\ n \in DOMAIN graph /\ n \in Nat /\ k \in 1..n
    BY <1>2, GraphTypes DEF GraphSteady, TypeInv
  <2>2. ASSUME Mutates(graph[n]), bin'[Pkg(graph[n])] = Identity[graph[n].new]
        PROVE  FALSE
    <3>1. n # k
      BY <1>4, <2>1, <2>2, GraphTypes, GraphAssumption DEF TypeInv, TypeOK
    <3>2. Pkg(graph[n]) # Pkg(graph[k])
      BY <1>2, <2>1, <3>1 DEF GraphSteady, GraphShape
    <3>3. NewSide(n)
      BY <1>4, <2>1, <2>2, <3>2, GraphTypes DEF NewSide, TypeInv, TypeOK
    <3>4. n \in applied
      BY <1>1, <2>1, <2>2, <3>3, OtherIdentity DEF GraphPhase, TypeInv
    <3>5. n <= k
      BY <1>0, <3>4 DEF Latest
    <3>6. n \in Nat /\ k \in Nat /\ k <= n
      BY <2>1
    <3> HIDE DEF n
    <3> QED BY <3>1, <3>5, <3>6
  <2>3. RootLast'
    BY <1>1, <2>2 DEF RootLast, NewSide, Mutates, Root
  <2>4. Absent = IdentityOf(graph[k].old)
    BY <1>2 DEF IdentityOf
  <2>41. OwnedInOrder'
    <3>1. ASSUME NEW i \in DOMAIN graph, NEW j \in DOMAIN graph, j < i, NewSide(i)',
                 graph[Len(graph)].old = Absent
          PROVE  NewSide(j)'
      <4>1. \A m \in DOMAIN graph : m # k => (NewSide(m)' <=> NewSide(m))
        BY <1>1, <1>2, <1>4, GraphTypes DEF GraphSteady, GraphShape, NewSide, TypeInv, TypeOK
      <4>2. i # k
        <5>1. ~NewSide(k)'
          BY <1>1, <1>2, <1>4, GraphTypes, GraphAssumption DEF NewSide, TypeInv, TypeOK
        <5> QED BY <3>1, <5>1
      <4>3. NewSide(i)
        BY <3>1, <4>1, <4>2
      <4>4. NewSide(j)
        BY <3>1, <4>3 DEF GraphSteady, OwnedInOrder
      <4>5. graph[i].old = Absent
        <5>1. CASE i = n
          BY <3>1, <5>1
        <5>2. CASE i # n
          BY <5>2 DEF GraphSteady, GraphShape
        <5> QED BY <5>1, <5>2
      <4>6. i \in applied
        <5>1. ~OldSide(i)
          BY <4>3, <4>5, GraphTypes, GraphAssumption DEF OldSide, NewSide, IdentityOf, TypeInv
        <5> QED BY <1>1, <5>1 DEF GraphPhase
      <4>7. i <= k
        BY <1>0, <4>6 DEF Latest
      <4>8. j # k
        <5>1. i \in Nat /\ j \in Nat /\ k \in Nat
          BY <2>1
        <5> QED BY <3>1, <4>7, <5>1
      <4> QED BY <4>1, <4>4, <4>8
    <3> QED BY <1>1, <3>1 DEF OwnedInOrder
  <2>5. /\ GraphSteady'
        /\ \A i \in DOMAIN graph :
             i # k => (NewSide(i)' <=> NewSide(i)) /\ (OldSide(i)' <=> OldSide(i))
        /\ OldSide(k)'
    BY <1>1, <1>2, <1>4, <2>3, <2>4, <2>41, OwnerStep DEF TypeInv
  <2>6. CASE applied' = applied \ {k} /\ UNCHANGED <<phase, step>>
    <3>1. GraphPhase'
      BY <1>1, <2>5, <2>6 DEF GraphPhase, TypeInv, TypeOK
    <3> QED BY <2>5, <3>1, GraphPendingNext
  <2>7. CASE Exit
    BY <2>5, <2>7, ExitKeepsGraph
  <2> QED BY <1>0, <1>3, <2>6, <2>7
<1> QED BY <1>0, <1>3, <1>4

LEMMA UndoDoneKeeps ==
  ASSUME TypeInv, GraphSteady, GraphPhase, UndoDone
  PROVE  TransactionInv'
<1>1. /\ phase = "undo" /\ applied = {} /\ phase' = "restore" /\ step' = 1
      /\ UNCHANGED <<graph, journal, svc, bin, applied>>
  BY DEF UndoDone, Goto, durable
<1>2. DOMAIN graph = 1..Len(graph) /\ 1 \in DOMAIN graph
  BY GraphTypes DEF GraphSteady, TypeInv
<1>3. GraphSteady' /\ \A i \in DOMAIN graph : OldSide(i)' <=> OldSide(i)
  BY <1>1, ControlStep DEF TypeInv
<1>4. \A i \in DOMAIN graph : ~(i < 1)
  BY <1>2
<1>5. GraphPhase'
  BY <1>1, <1>2, <1>3, <1>4 DEF GraphPhase
<1> QED BY <1>3, <1>5, GraphPendingNext

LEMMA RestoreKeeps ==
  ASSUME TypeInv, GraphSteady, GraphPhase, Restore
  PROVE  TransactionInv'
<1>0. PICK k \in DOMAIN graph : k = step
  BY DEF Restore, TypeInv, Located
<1> DEFINE e == graph[k]
           done == [svc EXCEPT ![Pkg(e)] = e.old]
<1>1. phase = "restore" /\ UNCHANGED <<graph, journal, bin>>
  BY DEF Restore
<1>2. DOMAIN graph = 1..Len(graph) /\ Len(graph) \in Nat
  BY GraphTypes DEF TypeInv
<1>3. \/ svc' = done /\ NextEntry("restore", "clear") /\ applied' = applied
      \/ svc' \in {svc, done} /\ Exit
  BY <1>0 DEF Restore, PutBack, PutBackFails, WriteReceipt, WriteReceiptFails,
              RemoveReceipt, RemoveReceiptFails
<1>4. /\ GraphSteady'
      /\ \A i \in DOMAIN graph :
           /\ OldSide(i)' <=> OldSide(i)
           /\ i # k => (WroteOld(i)' <=> WroteOld(i))
      /\ svc' = done => WroteOld(k)'
  BY <1>1, <1>3, ServiceStep DEF TypeInv
<1>5. CASE svc' = done /\ NextEntry("restore", "clear") /\ applied' = applied
  <2>1. \A i \in DOMAIN graph : OldSide(i)' /\ (i <= k => WroteOld(i)')
    BY <1>0, <1>1, <1>2, <1>4, <1>5 DEF GraphPhase
  <2>2. CASE k < Len(graph) /\ Goto("restore", k + 1)
    <3>1. phase' = "restore" /\ step' = k + 1 /\ k + 1 \in DOMAIN graph
      BY <1>2, <2>2 DEF Goto
    <3>2. \A i \in DOMAIN graph : i < k + 1 <=> i <= k
      BY <1>2
    <3>3. GraphPhase'
      BY <1>1, <2>1, <3>1, <3>2 DEF GraphPhase
    <3> QED BY <1>4, <3>3, GraphPendingNext
  <2>3. CASE k = Len(graph) /\ Goto("clear", 0)
    <3>1. GraphPhase'
      BY <1>1, <1>2, <2>1, <2>3 DEF GraphPhase, Goto
    <3> QED BY <1>4, <3>1, GraphPendingNext
  <2> QED BY <1>0, <1>2, <1>5, <2>2, <2>3 DEF NextEntry
<1>6. CASE Exit
  BY <1>4, <1>6, ExitKeepsGraph
<1> QED BY <1>3, <1>5, <1>6

LEMMA RollForwardKeeps ==
  ASSUME TypeInv, GraphSteady, GraphPhase, RollForward
  PROVE  TransactionInv'
<1>0. PICK k \in DOMAIN graph : k = step
  BY DEF RollForward, TypeInv, Located
<1> DEFINE e == graph[k]
           done == [svc EXCEPT ![Pkg(e)] = e.new]
<1>1. phase = "forward" /\ UNCHANGED <<graph, journal, bin>>
  BY DEF RollForward
<1>2. DOMAIN graph = 1..Len(graph) /\ Len(graph) \in Nat
  BY GraphTypes DEF TypeInv
<1>3. \/ svc' = done /\ NextEntry("forward", "clear") /\ applied' = applied
      \/ svc' \in {svc, done} /\ Exit
  BY <1>0 DEF RollForward, WriteReceipt, WriteReceiptFails
<1>4. /\ GraphSteady'
      /\ \A i \in DOMAIN graph :
           /\ NewSide(i)' <=> NewSide(i)
           /\ i # k => (WroteNew(i)' <=> WroteNew(i))
      /\ svc' = done => WroteNew(k)'
  BY <1>1, <1>3, ServiceStep DEF TypeInv
<1>5. CASE svc' = done /\ NextEntry("forward", "clear") /\ applied' = applied
  <2>1. \A i \in DOMAIN graph : NewSide(i)' /\ (i <= k => WroteNew(i)')
    BY <1>0, <1>1, <1>2, <1>4, <1>5 DEF GraphPhase, AllNew
  <2>2. CASE k < Len(graph) /\ Goto("forward", k + 1)
    <3>1. phase' = "forward" /\ step' = k + 1 /\ k + 1 \in DOMAIN graph
      BY <1>2, <2>2 DEF Goto
    <3>2. \A i \in DOMAIN graph : i < k + 1 <=> i <= k
      BY <1>2
    <3>3. GraphPhase'
      BY <1>1, <2>1, <3>1, <3>2 DEF GraphPhase, AllNew
    <3> QED BY <1>4, <3>3, GraphPendingNext
  <2>3. CASE k = Len(graph) /\ Goto("clear", 0)
    <3>1. GraphPhase'
      BY <1>1, <1>2, <2>1, <2>3 DEF GraphPhase, Goto, AllNew
    <3> QED BY <1>4, <3>1, GraphPendingNext
  <2> QED BY <1>0, <1>2, <1>5, <2>2, <2>3 DEF NextEntry
<1>6. CASE Exit
  BY <1>4, <1>6, ExitKeepsGraph
<1> QED BY <1>3, <1>5, <1>6

(* A pending graph whose root is not yet new is reversible, and the entries     *)
(* recovery undoes are exactly those that are off their old side.               *)
LEMMA RecoverGraphKeeps ==
  ASSUME TypeInv, GraphSteady, RecoverGraph
  PROVE  TransactionInv'
<1>1. graph # << >> /\ UNCHANGED <<graph, journal, svc, bin>>
  BY DEF RecoverGraph, Open, durable
<1>2. /\ GraphSteady'
      /\ \A i \in DOMAIN graph :
           /\ NewSide(i)' <=> NewSide(i)
           /\ OldSide(i)' <=> OldSide(i)
  BY <1>1, ControlStep DEF TypeInv
<1>3. DOMAIN graph = 1..Len(graph) /\ 1 \in DOMAIN graph
  BY <1>1, GraphTypes DEF TypeInv
<1>4. CASE AllNew /\ Open("forward", 1, {})
  <2>1. \A i \in DOMAIN graph : ~(i < 1)
    BY <1>3
  <2>2. GraphPhase'
    BY <1>1, <1>2, <1>3, <1>4, <2>1 DEF GraphPhase, AllNew, Open, Goto
  <2> QED BY <1>2, <2>2, GraphPendingNext
<1>5. CASE /\ Reversible
           /\ Open("undo", 0, {i \in DOMAIN graph : graph[i].old = Absent /\ NewSide(i)})
  <2>1. ASSUME NEW i \in DOMAIN graph, ~(graph[i].old = Absent /\ NewSide(i))
        PROVE  OldSide(i)
    <3>1. CASE graph[i].old = Absent
      BY <2>1, <3>1 DEF GraphSteady
    <3>2. CASE graph[i].old # Absent
      <4>1. i = Len(graph)
        BY <3>2 DEF GraphSteady, GraphShape
      <4> QED BY <1>5, <3>2, <4>1 DEF Reversible, OldSide, IdentityOf
    <3> QED BY <3>1, <3>2
  <2>2. GraphPhase'
    BY <1>1, <1>2, <1>5, <2>1 DEF GraphPhase, Open, Goto
  <2> QED BY <1>2, <2>2, GraphPendingNext
<1> QED BY <1>4, <1>5 DEF RecoverGraph

(* Nothing pending: what every operation starts from.                          *)
Settled ==
  /\ ReceiptsInPlace
  /\ \A p \in Package : Agree(p)
  /\ Consistent(Installed)

LEMMA NothingPending ==
  /\ ~Pending /\ TransactionInv => Settled
  /\ Settled' /\ (~Pending)' /\ phase' \in {"idle", "ready"} => TransactionInv'
BY DEF Settled, TransactionInv, Pending, GraphInv, JournalInv, Touched, InGraph,
       ReceiptsInPlace

LEMMA ClearGraphKeeps ==
  ASSUME TypeInv, GraphSteady, GraphPhase, Clear
  PROVE  TransactionInv'
<1>1. phase = "clear" /\ UNCHANGED <<svc, bin>>
  BY DEF Clear
<1>2. CASE UNCHANGED <<journal, graph>> /\ Exit
  BY <1>1, <1>2, ControlStep, ExitKeepsGraph DEF TypeInv
<1>3. CASE journal' = Absent /\ graph' = << >> /\ phase' \in {"idle", "ready"}
  <2>1. Settled
    BY <1>1, GraphClosed DEF GraphPhase, GraphSteady, Settled, AllNew, TypeInv
  <2>2. Settled'
    BY <1>1, <2>1 DEF Settled, ReceiptsInPlace, Agree, Installed
  <2> QED BY <1>3, <2>2, NothingPending DEF Pending
<1> QED BY <1>2, <1>3 DEF Clear, Exit, Goto

-----------------------------------------------------------------------------
(* Removals *)

RemovalSteady ==
  LET p == PackageOf[journal] IN
  /\ journal # Absent /\ graph = << >>
  /\ ReceiptsInPlace
  /\ \A q \in Package : q = p \/ Agree(q)
  /\ Consistent(Others) /\ Consistent(Others \cup {journal})
  /\ bin[p] \in {Absent, Identity[journal]}
  /\ svc[p] \in {Absent, journal}

RemovalPhase ==
  LET p == PackageOf[journal] IN
  /\ phase \in {"idle", "withdraw", "erase", "reinstate", "clear"}
  /\ phase = "withdraw" => bin[p] = IF recovering THEN Absent ELSE Identity[journal]
  /\ phase = "erase" => ~recovering /\ svc[p] = Absent /\ bin[p] = Identity[journal]
  /\ phase = "reinstate" => bin[p] = Identity[journal]
  /\ phase = "clear" => Agree(p)

LEMMA RemovalPending ==
  (journal # Absent /\ TransactionInv) <=> (RemovalSteady /\ RemovalPhase)
BY DEF TransactionInv, RemovalSteady, RemovalPhase, GraphInv, JournalInv, Pending,
       Touched, InGraph, ReceiptsInPlace

LEMMA RemovalPendingNext ==
  (RemovalSteady /\ RemovalPhase)' => TransactionInv'
BY DEF TransactionInv, RemovalSteady, RemovalPhase, GraphInv, JournalInv, Pending,
       Touched, InGraph, ReceiptsInPlace

(* A step that keeps the journal and moves at most the receipts it names.       *)
LEMMA RemovalStep ==
  ASSUME TypeOK, RemovalSteady, UNCHANGED <<graph, journal>>,
         NEW r \in {Absent, journal}, NEW a \in {Absent, Identity[journal]},
         svc' \in {svc, [svc EXCEPT ![PackageOf[journal]] = r]},
         bin' \in {bin, [bin EXCEPT ![PackageOf[journal]] = a]}
  PROVE  RemovalSteady'
<1> DEFINE p == PackageOf[journal]
<1>1. /\ p \in Package
      /\ svc \in [Package -> Receipt \cup {Absent}]
      /\ bin \in [Package -> Artifact \cup {Absent}]
  BY GraphAssumption DEF TypeOK, RemovalSteady
<1>2. \A q \in Package : q # p => svc'[q] = svc[q] /\ bin'[q] = bin[q]
  BY <1>1
<1>3. svc'[p] \in {Absent, journal} /\ bin'[p] \in {Absent, Identity[journal]}
  BY <1>1 DEF RemovalSteady
<1>4. Others' = Others
  BY <1>2 DEF Others
<1>5. ReceiptsInPlace'
  BY <1>2, <1>3 DEF RemovalSteady, ReceiptsInPlace
<1>6. \A q \in Package : (q = p \/ Agree(q))'
  BY <1>2 DEF RemovalSteady, Agree
<1> QED BY <1>3, <1>4, <1>5, <1>6 DEF RemovalSteady

LEMMA ExitKeepsRemoval ==
  ASSUME RemovalSteady', Exit
  PROVE  TransactionInv'
<1>1. RemovalPhase'
  BY DEF Exit, Goto, RemovalPhase
<1> QED BY <1>1, RemovalPendingNext

LEMMA RecoverSingleKeeps ==
  ASSUME TypeInv, RemovalSteady, RecoverSingle
  PROVE  TransactionInv'
<1>1. UNCHANGED <<graph, journal, svc, bin>>
  BY DEF RecoverSingle, Open, durable
<1>2. RemovalSteady'
  BY <1>1, RemovalStep DEF TypeInv
<1>3. RemovalPhase'
  BY <1>1 DEF RecoverSingle, Open, Goto, RemovalPhase
<1> QED BY <1>2, <1>3, RemovalPendingNext

LEMMA WithdrawKeeps ==
  ASSUME TypeInv, RemovalSteady, RemovalPhase, Withdraw
  PROVE  TransactionInv'
<1> DEFINE p == PackageOf[journal]
<1>1. phase = "withdraw" /\ UNCHANGED <<graph, journal, bin>>
  BY DEF Withdraw
<1>2. svc' \in {svc, [svc EXCEPT ![p] = Absent]}
  BY DEF Withdraw, RemoveReceipt, RemoveReceiptFails
<1>3. RemovalSteady'
  BY <1>1, <1>2, RemovalStep DEF TypeInv
<1>4. CASE Exit
  BY <1>3, <1>4, ExitKeepsRemoval
<1>5. CASE /\ RemoveReceipt(p) /\ UNCHANGED <<applied, recovering, mine>>
           /\ Goto(IF recovering THEN "clear" ELSE "erase", 0)
  <2>1. svc'[p] = Absent
    BY <1>5, GraphAssumption DEF RemoveReceipt, RemovalSteady, TypeInv, TypeOK
  <2>2. RemovalPhase'
    BY <1>1, <1>5, <2>1 DEF RemovalPhase, Goto, Agree, IdentityOf, TypeInv, TypeOK
  <2> QED BY <1>3, <2>2, RemovalPendingNext
<1> QED BY <1>4, <1>5 DEF Withdraw

LEMMA EraseKeeps ==
  ASSUME TypeInv, RemovalSteady, RemovalPhase, Undisturbed, Erase
  PROVE  TransactionInv'
<1> DEFINE p == PackageOf[journal]
<1>1. phase = "erase" /\ UNCHANGED <<graph, journal, svc>>
  BY DEF Erase
<1>2. \/ bin' = [bin EXCEPT ![p] = Absent] /\ Goto("clear", 0)
      \/ bin' = bin /\ Goto("reinstate", 0)
  BY <1>1 DEF Erase, Undisturbed, RemovalPhase
<1>3. RemovalSteady'
  BY <1>1, <1>2, RemovalStep DEF TypeInv
<1>4. CASE bin' = bin /\ Goto("reinstate", 0)
  <2>1. RemovalPhase'
    BY <1>1, <1>4 DEF RemovalPhase, Goto
  <2> QED BY <1>3, <2>1, RemovalPendingNext
<1>5. CASE bin' = [bin EXCEPT ![p] = Absent] /\ Goto("clear", 0)
  <2>1. bin'[p] = Absent
    BY <1>5, GraphAssumption DEF RemovalSteady, TypeInv, TypeOK
  <2>2. RemovalPhase'
    BY <1>1, <1>5, <2>1 DEF RemovalPhase, Goto, Agree, IdentityOf
  <2> QED BY <1>3, <2>2, RemovalPendingNext
<1> QED BY <1>2, <1>4, <1>5

LEMMA ReinstateKeeps ==
  ASSUME TypeInv, RemovalSteady, RemovalPhase, Reinstate
  PROVE  TransactionInv'
<1> DEFINE p == PackageOf[journal]
<1>1. phase = "reinstate" /\ UNCHANGED <<graph, journal, bin>>
  BY DEF Reinstate
<1>2. svc' \in {svc, [svc EXCEPT ![p] = journal]}
  BY DEF Reinstate, WriteReceipt, WriteReceiptFails
<1>3. RemovalSteady'
  BY <1>1, <1>2, RemovalStep DEF TypeInv
<1>4. CASE Exit
  BY <1>3, <1>4, ExitKeepsRemoval
<1>5. CASE WriteReceipt(p, journal) /\ Goto("clear", 0)
  <2>1. svc'[p] = journal
    BY <1>5, GraphAssumption DEF WriteReceipt, RemovalSteady, TypeInv, TypeOK
  <2>2. RemovalPhase'
    BY <1>1, <1>5, <2>1 DEF RemovalPhase, RemovalSteady, Goto, Agree, IdentityOf
  <2> QED BY <1>3, <2>2, RemovalPendingNext
<1> QED BY <1>4, <1>5 DEF Reinstate

LEMMA ClearRemovalKeeps ==
  ASSUME TypeInv, RemovalSteady, RemovalPhase, Clear
  PROVE  TransactionInv'
<1> DEFINE p == PackageOf[journal]
<1>1. phase = "clear" /\ UNCHANGED <<svc, bin>> /\ p \in Package
  BY GraphAssumption DEF Clear, RemovalSteady, TypeInv, TypeOK
<1>2. CASE UNCHANGED <<journal, graph>> /\ Exit
  BY <1>1, <1>2, RemovalStep, ExitKeepsRemoval DEF TypeInv
<1>3. CASE journal' = Absent /\ graph' = << >> /\ phase' \in {"idle", "ready"}
  <2>1. \A q \in Package : Agree(q)
    BY <1>1 DEF RemovalSteady, RemovalPhase
  <2>2. Installed \in {Others, Others \cup {journal}}
    BY <1>1 DEF RemovalSteady, Installed, Others
  <2>3. Settled
    BY <2>1, <2>2 DEF RemovalSteady, Settled
  <2>4. Settled'
    BY <1>1, <2>3 DEF Settled, ReceiptsInPlace, Agree, Installed
  <2> QED BY <1>3, <2>4, NothingPending DEF Pending
<1> QED BY <1>2, <1>3 DEF Clear, Exit, Goto

-----------------------------------------------------------------------------
(* Operations that begin *)

LEMMA BeginRemoveKeeps ==
  ASSUME TypeInv, ~Pending, Settled, NEW p \in Package, BeginRemove(p)
  PROVE  TransactionInv'
<1> DEFINE r == svc[p]
<1>1. /\ r # Absent /\ PackageOf[r] = p /\ bin[p] = Identity[r]
      /\ UNCHANGED <<svc, bin, graph>> /\ graph = << >> /\ journal = Absent
  BY DEF BeginRemove, Agree, IdentityOf, Settled, ReceiptsInPlace, Pending
<1>2. CASE journal' = journal /\ Exit
  BY <1>1, <1>2, NothingPending DEF Settled, ReceiptsInPlace, Agree, Installed, Pending,
                                    Exit, Goto
<1>3. CASE journal' = r
  <2>1. {svc[q] : q \in Package \ {p}} \ {Absent} = Installed \ {r}
    BY <1>1 DEF Installed, Settled, ReceiptsInPlace
  <2>2. Installed = (Installed \ {r}) \cup {r}
    BY <1>1 DEF Installed
  <2>3. Consistent(Installed \ {r}) /\ Consistent(Installed)
    BY DEF BeginRemove, Settled, Consistent
  <2>4. Others' = Installed \ {r}
    BY <1>1, <1>3, <2>1 DEF Others
  <2>5. Consistent(Others') /\ Consistent(Others' \cup {journal'})
    BY <1>3, <2>2, <2>3, <2>4
  <2>6. RemovalSteady'
    BY <1>1, <1>3, <2>5 DEF RemovalSteady, Settled, ReceiptsInPlace, Agree, Consistent
  <2>7. CASE Exit
    BY <2>6, <2>7, ExitKeepsRemoval
  <2>8. CASE Goto("withdraw", 0) /\ recovering' = FALSE
    <3>1. RemovalPhase'
      BY <1>1, <1>3, <2>8 DEF RemovalPhase, Goto
    <3> QED BY <2>6, <3>1, RemovalPendingNext
  <2> QED BY <1>1, <1>3, <2>7, <2>8 DEF BeginRemove
<1> QED BY <1>1, <1>2, <1>3 DEF BeginRemove

(* The order of a fresh install.  What the sort left behind the root, nothing   *)
(* before it requires, so a plan that holds nothing it can do without has no    *)
(* such package, and each one comes after what it requires.                     *)
LEMMA FreshOrder ==
  ASSUME NEW root \in Receipt, NEW new \in SUBSET Receipt, Selected(root, new),
         NEW o \in Orders(new \cup {root}), DependencyOrder(root, o),
         Consistent(Installed), svc[PackageOf[root]] = Absent,
         NEW k \in 1..Len(o), NEW q \in Requires[o[k]]
  PROVE  \E r \in q : r \in Fixed(root) \/ \E j \in 1..k : r = o[j]
<1> DEFINE n == Len(o)
           Before(m) == Fixed(root) \cup {o[j] : j \in 1..m}
<1>1. k \in 1..n
  OBVIOUS
<1>2. /\ n \in Nat \ {0} /\ DOMAIN o = 1..n /\ o \in [1..n -> new \cup {root}]
      /\ \A i, j \in 1..n : o[i] = o[j] => i = j
  <2>1. /\ Len(o) \in Nat \ {0} /\ DOMAIN o = 1..Len(o)
        /\ o \in [1..Len(o) -> new \cup {root}]
        /\ \A i, j \in DOMAIN o : o[i] = o[j] => i = j
    BY OrderOfPlan
  <2> QED BY <2>1
<1>3. PICK at \in 1..n :
        /\ \A x \in Requires[root] : x \cap (Before(at - 1) \cup {root}) # {}
        /\ \A m \in 1..(n - 1) : \A x \in Requires[o[m]] :
             x \cap (Before(m) \cup IF m >= at THEN {root} ELSE {}) # {}
  BY DEF DependencyOrder
<1>4. o[n] = root
  BY DEF DependencyOrder
<1> DEFINE fewer == {o[j] : j \in 1..(at - 1)}
<1> HIDE DEF n
<1>5. fewer \in SUBSET new
  <2>1. ASSUME NEW j \in 1..(at - 1) PROVE o[j] \in new
    <3>1. j \in 1..n /\ j # n /\ n \in 1..n
      BY <1>2, <1>3
    <3> QED BY <1>2, <1>4, <3>1
  <2> QED BY <2>1
<1>6. Fixed(root) = Installed
  BY DEF Fixed, Installed
<1>7. Feasible(root, fewer)
  <2> DEFINE S == Fixed(root) \cup fewer \cup {root}
  <2>1. S \subseteq Fixed(root) \cup new \cup {root}
    BY <1>5
  <2>2. \A r, s \in S : r # s => s \notin Conflicts[r]
    BY <2>1 DEF Selected, Feasible, Consistent
  <2>3. \A r, s \in fewer : PackageOf[r] = PackageOf[s] => r = s
    BY <1>5 DEF Selected, Feasible
  <2>4. ASSUME NEW r \in S, NEW x \in Requires[r] PROVE x \cap S # {}
    <3>1. CASE r \in Fixed(root)
      BY <1>6, <2>4, <3>1 DEF Consistent, Supported
    <3>2. CASE r = root
      BY <1>3, <2>4, <3>2
    <3>3. CASE r \in fewer
      <4>1. PICK m \in 1..(at - 1) : r = o[m]
        BY <3>3
      <4>2. m \in 1..(n - 1) /\ ~(m >= at) /\ 1..m \subseteq 1..(at - 1)
        BY <1>2, <1>3, <4>1
      <4>3. x \cap Before(m) # {}
        BY <1>3, <2>4, <4>1, <4>2
      <4> QED BY <4>2, <4>3
    <3> QED BY <3>1, <3>2, <3>3
  <2> QED BY <2>2, <2>3, <2>4 DEF Feasible, Consistent, Supported
<1>8. fewer = new
  BY <1>5, <1>7 DEF Selected
<1>9. at = n
  <2>1. ASSUME at # n PROVE FALSE
    <3>1. at \in 1..n /\ n \in 1..n /\ o[at] # o[n] /\ at \notin 1..(at - 1)
      BY <1>2, <1>3, <2>1
    <3>2. o[at] \in fewer
      BY <1>2, <1>4, <1>8, <3>1
    <3>3. PICK j \in 1..(at - 1) : o[at] = o[j]
      BY <3>2
    <3>4. j \in 1..n
      BY <1>2, <1>3, <3>3
    <3> QED BY <1>2, <3>1, <3>3, <3>4
  <2> QED BY <2>1
<1>10. ASSUME k = n PROVE q \cap Before(k) # {}
  <2>1. {o[j] : j \in 1..n} = {o[j] : j \in 1..(n - 1)} \cup {root}
    <3>1. 1..n = (1..(n - 1)) \cup {n}
      BY <1>2
    <3> QED BY <1>4, <3>1
  <2> QED BY <1>3, <1>4, <1>9, <1>10, <2>1
<1>11. ASSUME k # n PROVE q \cap Before(k) # {}
  <2>1. k \in 1..(n - 1) /\ ~(k >= n)
    BY <1>1, <1>2, <1>11
  <2> QED BY <1>3, <1>9, <2>1
<1>12. q \cap Before(k) # {}
  BY <1>10, <1>11
<1> QED BY <1>12

(* The journal an install or update writes: its entries are distinct packages,  *)
(* only the root replaces a receipt, and both sides are consistent.             *)
LEMMA InstallOrUpdateKeeps ==
  ASSUME TypeInv, ~Pending, Settled, InstallOrUpdate
  PROVE  TransactionInv'
<1>1. PICK root \in Receipt : \E new \in SUBSET Missing(root) :
        /\ Selected(root, new)
        /\ \E o \in Orders(new \cup {root}) :
             DependencyOrder(root, o) /\ BeginGraph(root, o)
  BY DEF InstallOrUpdate
<1>2. PICK new \in SUBSET Missing(root) :
        /\ Selected(root, new)
        /\ \E o \in Orders(new \cup {root}) :
             DependencyOrder(root, o) /\ BeginGraph(root, o)
  BY <1>1
<1>3. PICK o \in Orders(new \cup {root}) : DependencyOrder(root, o) /\ BeginGraph(root, o)
  BY <1>2
<1> DEFINE n == Len(o)
           entries == [i \in 1..n |-> [old |-> svc[PackageOf[o[i]]], new |-> o[i]]]
           target == PackageOf[root]
<1>4. UNCHANGED <<svc, bin, journal>> /\ journal = Absent /\ graph = << >>
  BY <1>3 DEF BeginGraph, Pending
<1>5. CASE graph' = graph /\ Exit
  BY <1>4, <1>5, NothingPending DEF Settled, ReceiptsInPlace, Agree, Installed, Pending,
                                    Exit, Goto
<1>6. CASE graph' = entries
  <2>1. new \in SUBSET Receipt /\ \A r \in new : svc[PackageOf[r]] = Absent /\ PackageOf[r] # target
    BY DEF Missing
  <2>2. /\ n \in Nat \ {0} /\ DOMAIN o = 1..n /\ o \in [1..n -> new \cup {root}]
        /\ \A i, j \in 1..n : o[i] = o[j] => i = j
        /\ \A r \in new \cup {root} : \E i \in 1..n : o[i] = r
    <3>1. /\ Len(o) \in Nat \ {0} /\ DOMAIN o = 1..Len(o)
          /\ o \in [1..Len(o) -> new \cup {root}]
          /\ \A i, j \in DOMAIN o : o[i] = o[j] => i = j
          /\ \A r \in new \cup {root} : \E i \in DOMAIN o : o[i] = r
      BY <2>1, OrderOfPlan
    <3> QED BY <3>1
  <2>3. n \in 1..n /\ o[n] = root
    BY <1>3, <2>2 DEF DependencyOrder
  <2> HIDE DEF n
  <2>4. /\ DOMAIN entries = 1..n /\ entries \in Seq([old : Receipt \cup {Absent}, new : Receipt])
        /\ \A i \in 1..n : entries[i].new = o[i] /\ entries[i].old = svc[PackageOf[o[i]]]
    <3>1. ASSUME NEW i \in 1..n
          PROVE  o[i] \in Receipt /\ svc[PackageOf[o[i]]] \in Receipt \cup {Absent}
      <4>1. o[i] \in Receipt
        BY <2>1, <2>2
      <4>2. PackageOf[o[i]] \in Package
        BY <4>1, GraphAssumption
      <4> QED BY <4>1, <4>2 DEF TypeInv, TypeOK
    <3> QED BY <2>2, <3>1
  <2>5. Len(entries) = n
    BY <2>2, <2>4
  <2> HIDE DEF entries
  <2>6. DOMAIN graph' = 1..n /\ Len(graph') = n /\ graph' # << >>
    BY <1>6, <2>2, <2>4, <2>5
  <2>7. \A i \in 1..n : graph'[i].new = o[i] /\ graph'[i].old = svc[PackageOf[o[i]]]
    BY <1>6, <2>4
  <2>8. \A i \in 1..n : o[i] \in Receipt /\ (o[i] = root <=> i = n) /\ (i # n => o[i] \in new)
    BY <2>1, <2>2, <2>3
  <2>9. \A p \in Package : InGraph(p)' <=> \E r \in new \cup {root} : PackageOf[r] = p
    <3>1. \A p \in Package : InGraph(p)' <=> \E i \in 1..n : PackageOf[o[i]] = p
      BY <2>6, <2>7 DEF InGraph, Pkg
    <3> QED BY <2>2, <3>1
  <2>10. Untouched' = Fixed(root)
    <3>1. \A p \in Package : svc[p] # Absent => (InGraph(p)' <=> p = target)
      BY <2>1, <2>9
    <3>2. \A p \in Package : svc[p] # Absent /\ svc[p] = svc[target] => p = target
      BY GraphAssumption DEF Settled, ReceiptsInPlace
    <3> QED BY <1>4, <3>1, <3>2, GraphAssumption DEF Untouched, Fixed, Installed
  <2>11. AfterGraph' = Fixed(root) \cup new \cup {root}
    <3>1. {graph'[i].new : i \in DOMAIN graph'} = {o[i] : i \in 1..n}
      BY <2>6, <2>7
    <3>2. {o[i] : i \in 1..n} = new \cup {root}
      BY <2>2
    <3> QED BY <2>10, <3>1, <3>2 DEF AfterGraph
  <2>12. {graph'[i].old : i \in DOMAIN graph'} \ {Absent} = {svc[target]} \ {Absent}
    BY <2>1, <2>3, <2>6, <2>7, <2>8
  <2>13. BeforeGraph' = Installed
    <3>1. target \in Package
      BY GraphAssumption
    <3> QED BY <2>10, <2>12, <3>1 DEF BeforeGraph, Fixed, Installed
  <2>14. Consistent(AfterGraph') /\ Consistent(BeforeGraph')
    BY <1>2, <2>11, <2>13 DEF Selected, Feasible, Settled
  <2>15. \A i, j \in 1..n : PackageOf[o[i]] = PackageOf[o[j]] => i = j
    <3>1. \A r, s \in new \cup {root} : PackageOf[r] = PackageOf[s] => r = s
      BY <1>2, <2>1 DEF Selected, Feasible
    <3> QED BY <2>2, <3>1
  <2>16. GraphShape'
    <3>1. \A i, j \in DOMAIN graph' : PackageOf[graph'[i].new] = PackageOf[graph'[j].new] => i = j
      BY <2>6, <2>7, <2>15
    <3>2. ASSUME NEW i \in DOMAIN graph', graph'[i].old # Absent
          PROVE  /\ i = Len(graph') /\ PackageOf[graph'[i].old] = PackageOf[graph'[i].new]
                 /\ UpdateAllowed(graph'[i].old, graph'[i].new)
      <4>1. i = n
        BY <2>1, <2>6, <2>7, <2>8, <3>2
      <4>2. graph'[i].old = svc[target] /\ graph'[i].new = root
        BY <2>3, <2>7, <4>1
      <4>3. UpdateAllowed(svc[target], root)
        BY <1>3, <3>2, <4>2 DEF BeginGraph
      <4> QED BY <2>6, <3>2, <4>1, <4>2, <4>3, GraphAssumption DEF Settled, ReceiptsInPlace
    <3>3. ASSUME graph'[n].old = Absent, NEW i \in DOMAIN graph',
                 NEW q \in Requires[graph'[i].new]
          PROVE  q \cap (Untouched' \cup {graph'[j].new : j \in {m \in DOMAIN graph' : m <= i}}) # {}
      <4>1. svc[target] = Absent
        BY <2>3, <2>7, <3>3
      <4>2. {graph'[j].new : j \in {m \in DOMAIN graph' : m <= i}} = {o[j] : j \in 1..i}
        BY <2>2, <2>6, <2>7, <3>3
      <4>3. q \cap (Fixed(root) \cup {o[j] : j \in 1..i}) # {}
        <5>1. i \in 1..Len(o) /\ q \in Requires[o[i]]
          BY <2>6, <2>7, <3>3 DEF n
        <5>2. /\ Selected(root, new) /\ DependencyOrder(root, o) /\ Consistent(Installed)
              /\ new \in SUBSET Receipt /\ o \in Orders(new \cup {root})
              /\ svc[PackageOf[root]] = Absent
          BY <1>2, <1>3, <2>1, <4>1 DEF Settled
        <5>3. \E r \in q : r \in Fixed(root) \/ \E j \in 1..i : r = o[j]
          BY ONLY root \in Receipt, <5>1, <5>2, FreshOrder
        <5> QED BY <5>3
      <4> QED BY <2>10, <4>2, <4>3
    <3> QED BY <2>6, <2>14, <3>1, <3>2, <3>3 DEF GraphShape, Pkg, Consistent, Supplied
  <2>17. \A i \in DOMAIN graph' : OldSide(i)' /\ WroteOld(i)'
    <3>1. \A i \in 1..n : PackageOf[o[i]] \in Package
      BY <2>8, GraphAssumption
    <3> QED BY <1>4, <2>6, <2>7, <3>1 DEF OldSide, WroteOld, Pkg, Settled, Agree, IdentityOf
  <2>18. RootLast'
    <3>1. bin[target] = IdentityOf(svc[target]) /\ svc[target] \in Receipt \cup {Absent}
      BY GraphAssumption DEF Settled, Agree, TypeInv, TypeOK
    <3>2. graph'[n].new = root /\ graph'[n].old = svc[target]
      BY <2>3, <2>7
    <3>3. ~(Mutates(graph'[n]) /\ bin[target] = Identity[root])
      BY <3>1, <3>2, GraphAssumption DEF Mutates, IdentityOf
    <3> QED BY <1>4, <2>6, <3>2, <3>3 DEF RootLast, NewSide, Mutates, Root, Pkg
  <2>181. OwnedInOrder'
    <3>1. ASSUME graph'[n].old = Absent, NEW i \in DOMAIN graph' PROVE ~NewSide(i)'
      <4>1. graph'[i].old = Absent
        BY <2>6, <2>16, <3>1 DEF GraphShape
      <4>2. OldSide(i)' /\ graph'[i].new \in Receipt
        BY <2>6, <2>7, <2>8, <2>17
      <4> QED BY <4>1, <4>2, GraphAssumption DEF OldSide, NewSide, IdentityOf
    <3> QED BY <2>6, <3>1 DEF OwnedInOrder
  <2>19. GraphSteady'
    BY <1>4, <2>6, <2>16, <2>17, <2>18, <2>181 DEF GraphSteady, Settled, ReceiptsInPlace, Agree
  <2>20. CASE Exit
    BY <2>19, <2>20, ExitKeepsGraph
  <2>21. CASE Goto("record", 1) /\ applied' = applied
    <3>1. applied' = {} /\ 1 \in DOMAIN graph' /\ \A i \in DOMAIN graph' : ~(i < 1)
      BY <2>2, <2>6, <2>21 DEF TypeInv, Located, InstallOrUpdate
    <3>2. GraphPhase'
      BY <2>17, <2>21, <3>1 DEF GraphPhase, Goto
    <3> QED BY <2>19, <3>2, GraphPendingNext
  <2> QED BY <1>3, <2>20, <2>21 DEF BeginGraph
<1> QED BY <1>3, <1>5, <1>6 DEF BeginGraph

-----------------------------------------------------------------------------
(* The invariant *)

LEMMA InitTransactionInv == Init => TransactionInv
<1> SUFFICES ASSUME Init PROVE TransactionInv
  OBVIOUS
<1>1. Installed = {}
  BY DEF Init, Installed
<1>2. Settled
  BY <1>1 DEF Init, Settled, ReceiptsInPlace, Agree, IdentityOf, Consistent,
                 Supported
<1> QED
  BY <1>2 DEF Init, Settled, TransactionInv, Pending, GraphInv, JournalInv, Touched,
              InGraph, ReceiptsInPlace

LEMMA StutterKeeps ==
  ASSUME TransactionInv, UNCHANGED vars
  PROVE  TransactionInv'
BY DEF TransactionInv, GraphInv, GraphShape, GraphPhase, JournalInv, Pending, Touched,
       InGraph, Agree, OldSide, NewSide, WroteOld, WroteNew, BeforeGraph, AfterGraph,
       Untouched, Installed, Others, AllNew, Mutates, Root, Supplied, OwnedInOrder, vars,
       durable, volatile

(* Where each action starts. *)
LEMMA Guards ==
  /\ OpenClean => journal = Absent /\ graph = << >>
  /\ RecoverSingle => journal # Absent
  /\ RecoverGraph => graph # << >>
  /\ Decline \/ InstallOrUpdate \/ Remove => phase = "ready"
  /\ RollForward => phase = "forward"
  /\ Record => phase = "record"
  /\ Deploy => phase = "deploy"
  /\ Undo \/ UndoDone => phase = "undo"
  /\ Restore => phase = "restore"
  /\ Withdraw => phase = "withdraw"
  /\ Erase => phase = "erase"
  /\ Reinstate => phase = "reinstate"
  /\ Clear => phase = "clear"
BY DEF OpenClean, RecoverSingle, RecoverGraph, Decline, InstallOrUpdate, Remove, BeginRemove,
       RollForward, Record, Deploy, Undo, UndoDone, Restore, Withdraw, Erase, Reinstate, Clear

LEMMA NoForeignWrite ==
  ASSUME TypeOK, Undisturbed
  PROVE  ~ForeignWrite
BY DEF ForeignWrite, Undisturbed, TypeOK

LEMMA TransactionInvNext ==
  ASSUME TypeInv, TransactionInv, Undisturbed, [Next]_vars
  PROVE  TransactionInv'
<1>1. CASE graph # << >>
  <2>1. GraphSteady /\ GraphPhase
    BY <1>1, GraphPending
  <2>2. CASE Kill
    BY <2>1, <2>2, ControlStep, ExitKeepsGraph DEF Kill, durable, TypeInv
  <2>3. CASE UNCHANGED vars \/ Refuse
    BY <2>3, StutterKeeps DEF Refuse
  <2>4. ~(OpenClean \/ RecoverSingle \/ Decline \/ InstallOrUpdate \/ Remove \/ Withdraw
          \/ Erase \/ Reinstate)
    <3>1. /\ journal = Absent
          /\ phase \in {"idle", "record", "deploy", "undo", "restore", "forward", "clear"}
      BY <2>1 DEF GraphSteady, GraphPhase
    <3> QED BY <1>1, <3>1, Guards
  <2> QED
    BY <2>1, <2>2, <2>3, <2>4, NoForeignWrite, RecoverGraphKeeps, RollForwardKeeps, RecordKeeps,
       DeployKeeps, UndoKeeps, UndoDoneKeeps, RestoreKeeps, ClearGraphKeeps
    DEF Next, Recover, Step, TypeInv
<1>2. CASE journal # Absent
  <2>1. RemovalSteady /\ RemovalPhase
    BY <1>2, RemovalPending
  <2>2. CASE Kill
    BY <2>1, <2>2, RemovalStep, ExitKeepsRemoval DEF Kill, durable, TypeInv
  <2>3. CASE UNCHANGED vars \/ Refuse
    BY <2>3, StutterKeeps DEF Refuse
  <2>4. ~(OpenClean \/ RecoverGraph \/ Decline \/ InstallOrUpdate \/ Remove \/ RollForward
          \/ Record \/ Deploy \/ Undo \/ UndoDone \/ Restore)
    <3>1. graph = << >> /\ phase \in {"idle", "withdraw", "erase", "reinstate", "clear"}
      BY <2>1 DEF RemovalSteady, RemovalPhase
    <3> QED BY <1>2, <3>1, Guards
  <2> QED
    BY <2>1, <2>2, <2>3, <2>4, NoForeignWrite, RecoverSingleKeeps, WithdrawKeeps,
       EraseKeeps, ReinstateKeeps, ClearRemovalKeeps
    DEF Next, Recover, Step, TypeInv
<1>3. CASE ~Pending
  <2>1. Settled /\ phase \in {"idle", "ready"} /\ journal = Absent /\ graph = << >>
    BY <1>3, NothingPending DEF Pending, TransactionInv
  <2>2. CASE OpenClean \/ Decline \/ Kill
    <3>1. UNCHANGED <<svc, bin, journal, graph>> /\ phase' \in {"idle", "ready"}
      BY <2>2 DEF OpenClean, Decline, Kill, Goto, Exit, durable
    <3> QED
      BY <2>1, <3>1, NothingPending DEF Settled, ReceiptsInPlace, Agree, Installed, Pending
  <2>3. CASE UNCHANGED vars \/ Refuse
    BY <2>3, StutterKeeps DEF Refuse
  <2>4. CASE Remove
    BY <1>3, <2>1, <2>4, BeginRemoveKeeps DEF Remove
  <2>5. CASE InstallOrUpdate
    BY <1>3, <2>1, <2>5, InstallOrUpdateKeeps
  <2>6. ~(Recover \/ Step)
    BY <2>1, Guards DEF Recover, Step
  <2> QED BY <2>2, <2>3, <2>4, <2>5, <2>6, NoForeignWrite DEF Next, TypeInv
<1> QED BY <1>1, <1>2, <1>3 DEF Pending

(* The transaction invariant: while a journal is pending, every package is on   *)
(* one of its two sides in both directories, and where the process is tells     *)
(* which; while none is, the two directories agree and the installed set is     *)
(* consistent.                                                                  *)
THEOREM TransactionInvariant ==
  ASSUME Undisturbed
  PROVE  Spec => []TransactionInv
<1>1. Init => TypeInv /\ TransactionInv
  BY InitTypeInv, InitTransactionInv
<1>2. TypeInv /\ TransactionInv /\ [Next]_vars => (TypeInv /\ TransactionInv)'
  BY TypeInvNext, TransactionInvNext
<1> QED BY <1>1, <1>2, PTL DEF Spec

(* The two receipt directories agree on every package whenever no journal is    *)
(* pending: what recover_pending is for.                                        *)
THEOREM ServiceReceiptsAgree ==
  ASSUME Undisturbed
  PROVE  Spec => []ReceiptsAgree
<1>1. TransactionInv => ReceiptsAgree
  BY NothingPending DEF ReceiptsAgree, Settled
<1> QED BY <1>1, TransactionInvariant, PTL

(* recover_pending never meets one of its fail-closed errors after failures and *)
(* kills of the service itself.                                                 *)
THEOREM ServiceRecoveryNeverRefused ==
  ASSUME Undisturbed
  PROVE  Spec => []RecoveryNeverRefused
<1>1. ASSUME TypeOK, TransactionInv PROVE RecoveryNeverRefused
  <2>1. journal = Absent \/ graph = << >>
    BY <1>1 DEF TransactionInv
  <2>2. journal # Absent => bin[PackageOf[journal]] \in {Absent, Identity[journal]}
    BY <1>1 DEF TransactionInv, JournalInv
  <2>3. ASSUME graph # << >>, ~AllNew PROVE Reversible
    <3>1. GraphSteady
      BY <1>1, <2>3, GraphPending
    <3>2. \A i \in DOMAIN graph : OldSide(i) \/ NewSide(i)
      BY <3>1 DEF GraphSteady
    <3>3. Len(graph) \in DOMAIN graph
      BY <1>1, <2>3, GraphTypes
    <3>4. graph[Len(graph)].old # Absent => OldSide(Len(graph))
      <4>1. CASE Mutates(Root)
        BY <2>3, <3>1, <3>2, <3>3, <4>1 DEF GraphSteady, RootLast
      <4>2. CASE ~Mutates(Root)
        BY <1>1, <3>2, <3>3, <4>2, SameIdentity DEF Root
      <4> QED BY <4>1, <4>2
    <3>5. \A i \in DOMAIN graph : graph[i].old # Absent => i = Len(graph)
      BY <3>1 DEF GraphSteady, GraphShape
    <3> QED BY <3>2, <3>4, <3>5 DEF Reversible, OldSide, IdentityOf
  <2> QED BY <2>1, <2>2, <2>3 DEF RecoveryNeverRefused, RecoverRefused
<1> QED BY <1>1, TypeCorrect, TransactionInvariant, PTL

(* A graph whose root is new is new throughout, and no rollback has to take a   *)
(* replaced root back: the order of lifecycle_dependency_graph is enough.       *)
THEOREM ServiceRootCommitsLast ==
  ASSUME Undisturbed
  PROVE  Spec => []RootCommitsLast
<1>1. TransactionInv => RootCommitsLast
  BY DEF TransactionInv, GraphInv, GraphPhase, RootCommitsLast
<1> QED BY <1>1, TransactionInvariant, PTL

-----------------------------------------------------------------------------
(* What is owned can run *)

(* While an install is under way, what is owned is what was there before and   *)
(* the packages of the graph up to the one that was owned last.                 *)
LEMMA OwnedInGraph ==
  ASSUME TypeOK, GraphSteady
  PROVE  graph[Len(graph)].old = Absent =>
           Owned = Untouched \cup {graph[i].new : i \in {j \in DOMAIN graph : NewSide(j)}}
<1> SUFFICES ASSUME graph[Len(graph)].old = Absent
             PROVE  Owned = Untouched \cup {graph[i].new : i \in {j \in DOMAIN graph : NewSide(j)}}
  OBVIOUS
<1> DEFINE Held == {svc[p] : p \in {q \in Package : svc[q] # Absent /\ bin[q] = Identity[svc[q]]}}
           New == {graph[i].new : i \in {j \in DOMAIN graph : NewSide(j)}}
<1>1. \A i \in DOMAIN graph : graph[i].old = Absent
  BY DEF GraphSteady, GraphShape
<1>2. ASSUME NEW p \in Package, svc[p] # Absent, bin[p] = Identity[svc[p]]
      PROVE  svc[p] \in Untouched \cup New
  <2>1. CASE InGraph(p)
    <3>1. PICK i \in DOMAIN graph : Pkg(graph[i]) = p
      BY <2>1 DEF InGraph
    <3>2. svc[p] = graph[i].new
      BY <1>1, <1>2, <3>1 DEF GraphSteady, WroteOld, WroteNew
    <3> QED BY <1>2, <3>1, <3>2 DEF NewSide
  <2>2. CASE ~InGraph(p)
    BY <1>2, <2>2 DEF Untouched
  <2> QED BY <2>1, <2>2
<1>3. ASSUME NEW p \in Package, ~InGraph(p), svc[p] # Absent
      PROVE  bin[p] = Identity[svc[p]]
  BY <1>3 DEF GraphSteady, Agree, IdentityOf
<1>4. Held \subseteq Untouched \cup New
  BY <1>2
<1>5. Untouched \subseteq Held
  BY <1>3 DEF Untouched
<1>6. Owned = Held \cup New
  BY DEF Owned
<1> QED BY <1>4, <1>5, <1>6

(* During an install, its rollback and its recovery, whatever is owned in the   *)
(* target root has what it requires, since the graph is owned in the order of   *)
(* its requirements and given up in the reverse order; so after a removal,      *)
(* which takes nothing away that another package requires.                      *)
THEOREM ServiceOwnedRunnable ==
  ASSUME Undisturbed
  PROVE  Spec => []OwnedAlwaysRunnable
<1>1. ASSUME TypeOK, TransactionInv PROVE OwnedAlwaysRunnable
  <2>1. CASE graph # << >>
    <3>1. GraphSteady
      BY <1>1, <2>1, GraphPending
    <3>2. DOMAIN graph = 1..Len(graph) /\ Len(graph) \in Nat
      BY <1>1, GraphTypes
    <3>3. ASSUME graph[Len(graph)].old = Absent,
                 NEW r \in Owned, NEW q \in Requires[r]
          PROVE  q \cap Owned # {}
      <4>1. Owned = Untouched \cup {graph[i].new : i \in {j \in DOMAIN graph : NewSide(j)}}
        BY <1>1, <3>1, <3>3, OwnedInGraph
      <4>2. CASE r \in Untouched
        <5>1. \A i \in DOMAIN graph : graph[i].old = Absent
          BY <3>1, <3>3 DEF GraphSteady, GraphShape
        <5>2. BeforeGraph = Untouched
          BY <5>1 DEF BeforeGraph
        <5> QED BY <3>1, <3>3, <4>1, <4>2, <5>2 DEF GraphSteady, GraphShape, Consistent, Supported
      <4>3. CASE r \notin Untouched
        <5>1. PICK i \in DOMAIN graph : NewSide(i) /\ r = graph[i].new
          BY <4>1, <4>3
        <5>2. q \cap (Untouched \cup {graph[j].new : j \in {k \in DOMAIN graph : k <= i}}) # {}
          BY <3>1, <3>3, <5>1 DEF GraphSteady, GraphShape, Supplied
        <5>3. \A j \in DOMAIN graph : j <= i => NewSide(j)
          BY <3>1, <3>2, <3>3, <5>1 DEF GraphSteady, OwnedInOrder
        <5>4. {graph[j].new : j \in {k \in DOMAIN graph : k <= i}} \subseteq Owned
          BY <4>1, <5>3
        <5> QED BY <4>1, <5>2, <5>4
      <4> QED BY <4>2, <4>3
    <3> QED BY <2>1, <3>3 DEF OwnedAlwaysRunnable, Root
  <2>2. CASE graph = << >> /\ journal # Absent
    <3> DEFINE p == PackageOf[journal]
    <3>1. RemovalSteady
      BY <1>1, <2>2, RemovalPending
    <3>2. Owned \in {Others, Others \cup {journal}}
      <4>1. p \in Package /\ journal \in Receipt
        BY <1>1, <2>2, GraphAssumption DEF TypeOK
      <4>2. Owned = {svc[q] : q \in {s \in Package : svc[s] # Absent /\ bin[s] = Identity[svc[s]]}}
        BY <2>2 DEF Owned
      <4>3. \A q \in Package \ {p} : svc[q] # Absent => bin[q] = Identity[svc[q]]
        BY <3>1 DEF RemovalSteady, Agree, IdentityOf
      <4>4. svc[p] \in {Absent, journal}
        BY <3>1 DEF RemovalSteady
      <4>5. Others = {svc[q] : q \in {s \in Package \ {p} : svc[s] # Absent}}
        BY DEF Others
      <4>6. CASE svc[p] # Absent /\ bin[p] = Identity[svc[p]]
        <5>1. Owned = Others \cup {journal}
          BY <4>1, <4>2, <4>3, <4>4, <4>5, <4>6
        <5> QED BY <5>1
      <4>7. CASE ~(svc[p] # Absent /\ bin[p] = Identity[svc[p]])
        <5>1. Owned = Others
          BY <4>1, <4>2, <4>3, <4>5, <4>7
        <5> QED BY <5>1
      <4> QED BY <4>6, <4>7
    <3>3. Supported(Others) /\ Supported(Others \cup {journal})
      BY <3>1 DEF RemovalSteady, Consistent
    <3> QED BY <3>2, <3>3 DEF OwnedAlwaysRunnable, Supported
  <2>3. CASE ~Pending
    <3>1. Settled
      BY <1>1, <2>3, NothingPending
    <3>2. Owned = Installed
      <4>1. Owned = {svc[q] : q \in {s \in Package : svc[s] # Absent /\ bin[s] = Identity[svc[s]]}}
        BY <2>3 DEF Owned, Pending
      <4>2. \A q \in Package : svc[q] # Absent => bin[q] = Identity[svc[q]]
        BY <3>1 DEF Settled, Agree, IdentityOf
      <4> QED BY <4>1, <4>2 DEF Installed
    <3> QED BY <3>1, <3>2 DEF OwnedAlwaysRunnable, Settled, Consistent, Supported
  <2> QED BY <2>1, <2>2, <2>3 DEF Pending
<1> QED BY <1>1, TypeCorrect, TransactionInvariant, PTL

-----------------------------------------------------------------------------
(* The implementation of PackageDatabase *)

(* Where no graph is pending, the database shows the service receipts, but for  *)
(* the package a removal is about, of which the ownership receipt decides.      *)
LEMMA RecordedBare ==
  graph = << >> =>
    \A p \in Package :
      Recorded(p) = IF journal # Absent /\ PackageOf[journal] = p
                      THEN IF bin[p] = Absent THEN Absent ELSE journal
                      ELSE svc[p]
<1> SUFFICES ASSUME graph = << >>, NEW p \in Package
             PROVE  Recorded(p) = IF journal # Absent /\ PackageOf[journal] = p
                                    THEN IF bin[p] = Absent THEN Absent ELSE journal
                                    ELSE svc[p]
  OBVIOUS
<1>1. {i \in DOMAIN graph : Pkg(graph[i]) = p} = {}
  OBVIOUS
<1> QED BY <1>1 DEF Recorded

LEMMA RecordedBareNext ==
  graph' = << >> =>
    \A p \in Package :
      Recorded(p)' = IF journal' # Absent /\ PackageOf[journal'] = p
                       THEN IF bin'[p] = Absent THEN Absent ELSE journal'
                       ELSE svc'[p]
<1> SUFFICES ASSUME graph' = << >>, NEW p \in Package
             PROVE  Recorded(p)' = IF journal' # Absent /\ PackageOf[journal'] = p
                                     THEN IF bin'[p] = Absent THEN Absent ELSE journal'
                                     ELSE svc'[p]
  OBVIOUS
<1>1. {i \in DOMAIN graph' : Pkg(graph'[i]) = p} = {}
  OBVIOUS
<1> QED BY <1>1 DEF Recorded

(* While a graph is pending, its packages are shown on one side all together.   *)
LEMMA RecordedGraph ==
  ASSUME GraphSteady, NEW p \in Package
  PROVE  /\ \A i \in DOMAIN graph : Pkg(graph[i]) = p =>
              Recorded(p) = IF Committed THEN graph[i].new ELSE graph[i].old
         /\ ~InGraph(p) => Recorded(p) = svc[p]
<1>1. ASSUME NEW i \in DOMAIN graph, Pkg(graph[i]) = p
      PROVE  Recorded(p) = IF Committed THEN graph[i].new ELSE graph[i].old
  <2>1. {k \in DOMAIN graph : Pkg(graph[k]) = p} = {i}
    BY <1>1 DEF GraphSteady, GraphShape
  <2>2. (CHOOSE k \in {i} : TRUE) = i
    OBVIOUS
  <2> QED BY <2>1, <2>2 DEF Recorded
<1>2. ASSUME ~InGraph(p) PROVE Recorded(p) = svc[p]
  <2>1. {i \in DOMAIN graph : Pkg(graph[i]) = p} = {}
    BY <1>2 DEF InGraph
  <2> QED BY <2>1 DEF Recorded, GraphSteady
<1> QED BY <1>1, <1>2

LEMMA RecordedGraphNext ==
  ASSUME GraphSteady', NEW p \in Package
  PROVE  /\ \A i \in DOMAIN graph' : Pkg(graph'[i]) = p =>
              Recorded(p)' = IF Committed' THEN graph'[i].new ELSE graph'[i].old
         /\ ~InGraph(p)' => Recorded(p)' = svc'[p]
<1>1. ASSUME NEW i \in DOMAIN graph', Pkg(graph'[i]) = p
      PROVE  Recorded(p)' = IF Committed' THEN graph'[i].new ELSE graph'[i].old
  <2>1. {k \in DOMAIN graph' : Pkg(graph'[k]) = p} = {i}
    BY <1>1 DEF GraphSteady, GraphShape
  <2>2. (CHOOSE k \in {i} : TRUE) = i
    OBVIOUS
  <2> QED BY <2>1, <2>2 DEF Recorded
<1>2. ASSUME ~InGraph(p)' PROVE Recorded(p)' = svc'[p]
  <2>1. {i \in DOMAIN graph' : Pkg(graph'[i]) = p} = {}
    BY <1>2 DEF InGraph
  <2> QED BY <2>1 DEF Recorded, GraphSteady
<1> QED BY <1>1, <1>2

(* The database says consistent and allowed in the words of the service.        *)
LEMMA DatabaseTerms ==
  /\ \A d : Database!Contents(d) = {d[p] : p \in Package} \ {Absent}
  /\ \A S : Database!Consistent(S) <=> Consistent(S)
  /\ \A r, s : Database!UpdateAllowed(r, s) <=> UpdateAllowed(r, s)
<1>1. \A d : Database!Contents(d) = {d[p] : p \in Package} \ {Absent}
  BY DEF Database!Contents
<1>2. \A S : Database!Consistent(S) <=> Consistent(S)
  BY DEF Database!Consistent, Database!Supported, Consistent, Supported
<1>3. \A r, s : Database!UpdateAllowed(r, s) <=> UpdateAllowed(r, s)
  BY DEF Database!UpdateAllowed, UpdateAllowed
<1> QED BY <1>1, <1>2, <1>3

(* From the old side of a graph to its new one: the transaction of its root.    *)
LEMMA CommitTransacts ==
  ASSUME TypeOK', GraphSteady', Committed',
         \A p \in Package :
           /\ \A i \in DOMAIN graph' : Pkg(graph'[i]) = p => Recorded(p) = graph'[i].old
           /\ ~InGraph(p)' => Recorded(p) = svc'[p]
  PROVE  Database!Next
<1> DEFINE n == Len(graph')
           now == [p \in Package |-> Recorded(p)]
           then == [p \in Package |-> Recorded(p)']
<1>1. /\ n \in Nat /\ DOMAIN graph' = 1..n /\ n \in DOMAIN graph'
      /\ \A i \in DOMAIN graph' : /\ graph'[i].new \in Receipt
                                  /\ graph'[i].old \in Receipt \cup {Absent}
  <2>1. graph' \in Seq(Entry) /\ graph' # << >>
    BY DEF TypeOK, GraphSteady
  <2>2. n \in Nat /\ DOMAIN graph' = 1..n /\ n # 0
    BY <2>1
  <2>3. \A i \in DOMAIN graph' : graph'[i] \in Entry
    BY <2>1, <2>2
  <2> QED BY <2>2, <2>3 DEF Entry
<1>2. PICK root \in Receipt : root = graph'[n].new
  BY <1>1
<1>3. /\ \A i, j \in DOMAIN graph' : PackageOf[graph'[i].new] = PackageOf[graph'[j].new] => i = j
      /\ \A i \in DOMAIN graph' : graph'[i].old # Absent =>
           i = n /\ UpdateAllowed(graph'[i].old, graph'[i].new)
  BY DEF GraphSteady, GraphShape, Pkg
<1>4. \A p \in Package :
        /\ \A i \in DOMAIN graph' : PackageOf[graph'[i].new] = p =>
             then[p] = graph'[i].new /\ now[p] = graph'[i].old
        /\ ~InGraph(p)' => then[p] = svc'[p] /\ now[p] = svc'[p]
  BY RecordedGraphNext DEF Pkg
<1>5. \A p \in Package : InGraph(p)' => \E i \in DOMAIN graph' : PackageOf[graph'[i].new] = p
  BY DEF InGraph, Pkg
<1>6. \A p \in Package : /\ svc'[p] # Absent => PackageOf[svc'[p]] = p
                         /\ svc'[p] \in Receipt \cup {Absent}
  BY DEF GraphSteady, ReceiptsInPlace, TypeOK
<1>7. AfterGraph' = ({svc'[p] : p \in {q \in Package : ~InGraph(q)'}} \ {Absent})
                      \cup {graph'[i].new : i \in DOMAIN graph'}
  BY DEF AfterGraph, Untouched
<1>8. now = [p \in Package |-> Recorded(p)] /\ then = [p \in Package |-> Recorded(p)]'
  OBVIOUS
<1> HIDE DEF n, now, then
<1>9. {then[p] : p \in Package} \ {Absent} = AfterGraph'
  <2>1. ASSUME NEW p \in Package, then[p] # Absent PROVE then[p] \in AfterGraph'
    <3>1. CASE InGraph(p)'
      BY <1>4, <1>5, <1>7, <3>1
    <3>2. CASE ~InGraph(p)'
      BY <1>4, <1>7, <2>1, <3>2
    <3> QED BY <3>1, <3>2
  <2>2. ASSUME NEW i \in DOMAIN graph'
        PROVE  graph'[i].new \in {then[p] : p \in Package} \ {Absent}
    <3>1. PICK p \in Package : p = PackageOf[graph'[i].new]
      BY <1>1, GraphAssumption
    <3>2. then[p] = graph'[i].new
      BY <1>4, <3>1
    <3>3. graph'[i].new # Absent
      BY <1>1, GraphAssumption
    <3> QED BY <3>2, <3>3
  <2>3. ASSUME NEW p \in Package, ~InGraph(p)', svc'[p] # Absent
        PROVE  svc'[p] \in {then[q] : q \in Package} \ {Absent}
    BY <1>4, <2>3
  <2> QED BY <1>7, <2>1, <2>2, <2>3
<1> DEFINE target == PackageOf[root]
<1>10. target \in Package
  BY GraphAssumption
<1>11. now[target] # Absent => UpdateAllowed(now[target], root)
  BY <1>1, <1>2, <1>3, <1>4, <1>10
<1>12. then[target] = root
  BY <1>1, <1>2, <1>4, <1>10
<1>13. \A p \in Package : then[p] \in Receipt \cup {Absent} /\ (then[p] # Absent => PackageOf[then[p]] = p)
  BY <1>1, <1>4, <1>5, <1>6
<1>14. \A p \in Package \ {target} : now[p] # Absent => then[p] = now[p]
  <2>1. ASSUME NEW p \in Package \ {target}, now[p] # Absent PROVE ~InGraph(p)'
    BY <1>2, <1>3, <1>4, <1>5, <2>1
  <2> QED BY <1>4, <2>1
<1>15. Consistent({then[p] : p \in Package} \ {Absent})
  BY <1>9 DEF GraphSteady, GraphShape
<1>16. then \in [Package -> Receipt \cup {Absent}]
  BY <1>13 DEF then
<1>17. Database!Transact(root)
  <2>1. Database!Consistent(Database!Contents(then))
    BY <1>15, DatabaseTerms
  <2>2. now[target] # Absent => Database!UpdateAllowed(now[target], root)
    BY <1>11, DatabaseTerms
  <2> QED BY <1>8, <1>12, <1>13, <1>14, <1>16, <2>1, <2>2 DEF Database!Transact
<1> QED BY <1>17 DEF Database!Next

(* Once every entry is new and no rollback runs, none ever will: recovery rolls *)
(* the graph forward.                                                           *)
LEMMA CommittedStays ==
  ASSUME TypeInv, GraphSteady, GraphPhase, Undisturbed, Committed, Next, graph' = graph
  PROVE  Committed'
<1>1. /\ AllNew /\ graph # << >>
      /\ phase \in {"idle", "forward", "clear"}
  BY DEF Committed, GraphSteady
<1>2. ASSUME bin' = bin PROVE AllNew'
  BY <1>1, <1>2 DEF AllNew, NewSide
<1>3. CASE RecoverGraph
  <2>1. bin' = bin /\ phase' = "forward"
    BY <1>1, <1>3 DEF RecoverGraph, Open, Goto, durable
  <2> QED BY <1>2, <2>1 DEF Committed
<1>4. CASE RollForward
  <2>1. bin' = bin
    BY <1>4 DEF RollForward
  <2>2. CASE Exit
    BY <1>2, <2>1, <2>2 DEF Committed, Exit, Goto
  <2>3. CASE WriteReceipt(Pkg(graph[step]), graph[step].new) /\ NextEntry("forward", "clear")
    <3>1. CASE step < Len(graph)
      BY <1>2, <2>1, <2>3, <3>1 DEF Committed, NextEntry, Goto
    <3>2. CASE ~(step < Len(graph))
      <4>1. step = Len(graph) /\ step \in DOMAIN graph
        BY <1>4, <3>2, GraphTypes DEF RollForward, TypeInv, Located
      <4>2. svc'[Pkg(graph[step])] = graph[step].new
        BY <2>3, <4>1, GraphTypes DEF WriteReceipt, TypeInv, TypeOK
      <4>3. phase' = "clear"
        BY <2>3, <3>2 DEF NextEntry, Goto
      <4> QED BY <1>2, <2>1, <4>1, <4>2, <4>3 DEF Committed, Root
    <3> QED BY <3>1, <3>2
  <2> QED BY <1>4, <2>2, <2>3 DEF RollForward
<1>5. CASE Clear \/ Kill
  <2>1. bin' = bin /\ phase' = "idle"
    BY <1>1, <1>5 DEF Clear, Kill, Exit, Goto, durable
  <2> QED BY <1>2, <2>1 DEF Committed
<1>6. CASE Refuse
  BY <1>1, <1>2, <1>6 DEF Refuse, vars, durable, volatile, Committed, Root
<1>7. journal = Absent
  BY DEF GraphSteady
<1> QED
  BY <1>1, <1>3, <1>4, <1>5, <1>6, <1>7, Guards, NoForeignWrite DEF Next, Recover, Step, TypeInv

(* A step under a pending graph keeps the receipts of all other packages, and   *)
(* the graph unless it clears it.                                               *)
LEMMA OffGraph ==
  ASSUME TypeInv, GraphSteady, GraphPhase, Undisturbed, Next
  PROVE  /\ \A p \in Package : ~InGraph(p) => svc'[p] = svc[p]
         /\ graph' = graph \/ (Clear /\ graph' = << >> /\ journal' = Absent /\ svc' = svc)
<1>0. /\ graph # << >> /\ journal = Absent
      /\ phase \in {"idle", "record", "deploy", "undo", "restore", "forward", "clear"}
  BY DEF GraphSteady, GraphPhase
<1>1. CASE RollForward \/ Record \/ Restore
  <2>1. step \in DOMAIN graph /\ graph' = graph
    BY <1>1 DEF RollForward, Record, Restore, TypeInv, Located
  <2>2. PICK r : svc' \in {svc, [svc EXCEPT ![Pkg(graph[step])] = r]}
    BY <1>1 DEF RollForward, Record, Restore, PutBack, PutBackFails, WriteReceipt,
                WriteReceiptFails, RemoveReceipt, RemoveReceiptFails
  <2>3. \A p \in Package : ~InGraph(p) => p # Pkg(graph[step])
    BY <2>1 DEF InGraph
  <2> QED BY <2>1, <2>2, <2>3 DEF TypeInv, TypeOK
<1>2. CASE Deploy \/ Undo \/ UndoDone \/ RecoverGraph \/ Kill \/ Refuse
  <2>1. svc' = svc /\ graph' = graph
    BY <1>2 DEF Deploy, Undo, UndoDone, RecoverGraph, Open, Kill, Refuse, vars, durable
  <2> QED BY <2>1
<1>3. CASE Clear
  BY <1>3 DEF Clear
<1> QED
  BY <1>0, <1>1, <1>2, <1>3, Guards, NoForeignWrite DEF Next, Recover, Step, TypeInv

LEMMA GraphMovesDatabase ==
  ASSUME TypeInv, TypeInv', TransactionInv, TransactionInv', Undisturbed, graph # << >>, Next
  PROVE  Database!Next \/ \A p \in Package : Recorded(p)' = Recorded(p)
<1>1. GraphSteady /\ GraphPhase
  BY GraphPending
<1>2. /\ \A p \in Package : ~InGraph(p) => svc'[p] = svc[p]
      /\ graph' = graph \/ (Clear /\ graph' = << >> /\ journal' = Absent /\ svc' = svc)
  BY <1>1, OffGraph
<1>3. \A p \in Package :
        /\ \A i \in DOMAIN graph : Pkg(graph[i]) = p =>
             Recorded(p) = IF Committed THEN graph[i].new ELSE graph[i].old
        /\ ~InGraph(p) => Recorded(p) = svc[p]
  BY <1>1, RecordedGraph
<1>4. CASE graph' = graph
  <2>1. GraphSteady' /\ \A p \in Package : InGraph(p)' <=> InGraph(p)
    BY <1>4 DEF TransactionInv, GraphSteady, GraphInv, JournalInv, Pending, Touched,
                ReceiptsInPlace, RootLast, InGraph
  <2>2. \A p \in Package :
          /\ \A i \in DOMAIN graph' : Pkg(graph'[i]) = p =>
               Recorded(p)' = IF Committed' THEN graph'[i].new ELSE graph'[i].old
          /\ ~InGraph(p)' => Recorded(p)' = svc'[p]
    BY <2>1, RecordedGraphNext
  <2>3. Committed => Committed'
    BY <1>1, <1>4, CommittedStays
  <2>4. CASE Committed' /\ ~Committed
    <3>1. \A p \in Package :
            /\ \A i \in DOMAIN graph' : Pkg(graph'[i]) = p => Recorded(p) = graph'[i].old
            /\ ~InGraph(p)' => Recorded(p) = svc'[p]
      BY <1>2, <1>3, <1>4, <2>1, <2>4
    <3> QED BY <2>1, <2>4, <3>1, CommitTransacts DEF TypeInv
  <2>5. CASE Committed' <=> Committed
    <3>1. ASSUME NEW p \in Package PROVE Recorded(p)' = Recorded(p)
      <4>1. CASE InGraph(p)
        <5>1. PICK i \in DOMAIN graph : Pkg(graph[i]) = p
          BY <4>1 DEF InGraph
        <5>2. Recorded(p)' = IF Committed' THEN graph[i].new ELSE graph[i].old
          BY <1>4, <2>2, <5>1
        <5>3. Recorded(p) = IF Committed THEN graph[i].new ELSE graph[i].old
          BY <1>3, <5>1
        <5> QED BY <2>5, <5>2, <5>3
      <4>2. CASE ~InGraph(p)
        BY <1>2, <1>3, <2>1, <2>2, <4>2
      <4> QED BY <4>1, <4>2
    <3> QED BY <3>1
  <2> QED BY <2>3, <2>4, <2>5
<1>5. CASE Clear /\ graph' = << >> /\ journal' = Absent /\ svc' = svc
  <2>1. \A p \in Package : Recorded(p)' = svc[p]
    BY <1>5, RecordedBareNext
  <2>2. ASSUME NEW p \in Package PROVE Recorded(p) = svc[p]
    <3>1. CASE InGraph(p)
      <4>1. PICK i \in DOMAIN graph : Pkg(graph[i]) = p
        BY <3>1 DEF InGraph
      <4>2. Recorded(p) = IF Committed THEN graph[i].new ELSE graph[i].old
        BY <1>3, <4>1
      <4>3. phase = "clear"
        BY <1>5 DEF Clear
      <4>4. CASE AllNew /\ \A k \in DOMAIN graph : WroteNew(k)
        <5>1. Committed
          <6>1. Len(graph) \in DOMAIN graph
            BY GraphTypes DEF TypeInv
          <6> QED BY <4>3, <4>4, <6>1 DEF Committed, WroteNew, Root
        <5> QED BY <4>1, <4>2, <4>4, <5>1 DEF WroteNew
      <4>5. CASE \A k \in DOMAIN graph : OldSide(k) /\ WroteOld(k)
        <5>1. CASE ~Committed
          BY <4>1, <4>2, <4>5, <5>1 DEF WroteOld
        <5>2. CASE Committed
          <6>1. NewSide(i) /\ OldSide(i) /\ svc[p] = graph[i].old
            BY <4>1, <4>5, <5>2 DEF Committed, AllNew, WroteOld
          <6>2. graph[i].old # Absent
            BY <6>1, OtherIdentity DEF Mutates, TypeInv
          <6>3. i = Len(graph)
            BY <1>1, <6>2 DEF GraphSteady, GraphShape
          <6>4. svc[Pkg(Root)] = Root.new
            BY <4>3, <5>2 DEF Committed
          <6> QED BY <4>1, <4>2, <5>2, <6>3, <6>4 DEF Root
        <5> QED BY <5>1, <5>2
      <4> QED BY <1>1, <4>3, <4>4, <4>5 DEF GraphPhase
    <3> QED BY <1>3, <3>1
  <2> QED BY <2>1, <2>2
<1> QED BY <1>2, <1>4, <1>5

(* A removal takes effect when the ownership receipt goes.                      *)
LEMMA RemovalMovesDatabase ==
  ASSUME TypeInv, TypeInv', TransactionInv, TransactionInv', Undisturbed, journal # Absent, Next
  PROVE  Database!Next \/ \A p \in Package : Recorded(p)' = Recorded(p)
<1> DEFINE target == PackageOf[journal]
<1>0. RemovalSteady /\ RemovalPhase
  BY RemovalPending
<1>1. /\ graph = << >> /\ journal \in Receipt /\ target \in Package
      /\ bin[target] \in {Absent, Identity[journal]} /\ svc[target] \in {Absent, journal}
  BY <1>0, GraphAssumption DEF RemovalSteady, TypeInv, TypeOK
<1>2. \A p \in Package : Recorded(p) = IF p = target
                                         THEN IF bin[p] = Absent THEN Absent ELSE journal
                                         ELSE svc[p]
  BY <1>1, RecordedBare
<1>3. CASE RecoverSingle \/ Withdraw \/ Reinstate \/ Kill \/ Refuse
  <2>1. /\ UNCHANGED <<graph, journal, bin>>
        /\ \E r : svc' \in {svc, [svc EXCEPT ![target] = r]}
    BY <1>3 DEF RecoverSingle, Withdraw, Reinstate, Kill, Refuse, Open, vars, durable,
                RemoveReceipt, RemoveReceiptFails, WriteReceipt, WriteReceiptFails
  <2>2. \A p \in Package : p # target => svc'[p] = svc[p]
    BY <2>1 DEF TypeInv, TypeOK
  <2>3. \A p \in Package : Recorded(p)' = IF p = target
                                            THEN IF bin[p] = Absent THEN Absent ELSE journal
                                            ELSE svc'[p]
    BY <1>1, <2>1, RecordedBareNext
  <2> QED BY <1>2, <2>2, <2>3
<1>4. CASE Erase
  <2>1. /\ UNCHANGED <<graph, journal, svc>> /\ phase = "erase"
        /\ bin' \in {bin, [bin EXCEPT ![target] = Absent]}
    BY <1>4 DEF Erase
  <2>2. \A p \in Package : Recorded(p)' = IF p = target
                                            THEN IF bin'[p] = Absent THEN Absent ELSE journal
                                            ELSE svc[p]
    BY <1>1, <2>1, RecordedBareNext
  <2>3. CASE bin' = bin
    BY <1>2, <2>2, <2>3
  <2>4. CASE bin' = [bin EXCEPT ![target] = Absent]
    <3> DEFINE now == [p \in Package |-> Recorded(p)]
               then == [p \in Package |-> Recorded(p)']
    <3>1. bin'[target] = Absent /\ bin[target] # Absent
      BY <1>0, <1>1, <2>1, <2>4, GraphAssumption DEF RemovalPhase, TypeInv, TypeOK
    <3>2. now[target] # Absent
      BY <1>1, <1>2, <3>1, GraphAssumption
    <3>3. then = [now EXCEPT ![target] = Absent]
      BY <1>1, <1>2, <2>2, <3>1
    <3>4. Consistent({then[p] : p \in Package} \ {Absent})
      <4>1. {then[p] : p \in Package} \ {Absent} = Others
        BY <1>1, <2>2, <3>1 DEF Others
      <4> QED BY <1>0, <4>1 DEF RemovalSteady
    <3>5. now = [p \in Package |-> Recorded(p)] /\ then = [p \in Package |-> Recorded(p)]'
      OBVIOUS
    <3> HIDE DEF now, then
    <3>6. Database!Consistent(Database!Contents(then))
      BY <3>4, DatabaseTerms
    <3>7. Database!Remove(target)
      BY <3>2, <3>3, <3>5, <3>6 DEF Database!Remove
    <3> QED BY <1>1, <3>7 DEF Database!Next
  <2> QED BY <2>1, <2>3, <2>4
<1>5. CASE Clear
  <2>1. /\ svc' = svc /\ bin' = bin /\ phase = "clear" /\ graph' = << >>
        /\ journal' \in {journal, Absent}
    BY <1>1, <1>5 DEF Clear
  <2>2. svc[target] = IF bin[target] = Absent THEN Absent ELSE journal
    BY <1>0, <1>1, <2>1, GraphAssumption DEF RemovalPhase, Agree, IdentityOf
  <2>3. \A p \in Package : Recorded(p) = svc[p]
    BY <1>2, <2>2
  <2>4. CASE journal' = journal
    BY <1>1, <1>2, <2>1, <2>4, RecordedBareNext
  <2>5. CASE journal' = Absent
    BY <2>1, <2>3, <2>5, RecordedBareNext
  <2> QED BY <2>1, <2>4, <2>5
<1>6. phase \in {"idle", "withdraw", "erase", "reinstate", "clear"}
  BY <1>0 DEF RemovalPhase
<1> QED
  BY <1>1, <1>3, <1>4, <1>5, <1>6, Guards, NoForeignWrite DEF Next, Recover, Step, TypeInv

(* Where nothing is pending, an operation writes its journal and changes        *)
(* nothing yet, unless the graph changes no ownership: it counts at once.       *)
LEMMA BeginMovesDatabase ==
  ASSUME TypeInv, TypeInv', TransactionInv, TransactionInv', Undisturbed, ~Pending, Next
  PROVE  Database!Next \/ \A p \in Package : Recorded(p)' = Recorded(p)
<1>0. /\ graph = << >> /\ journal = Absent /\ phase \in {"idle", "ready"} /\ Settled
  BY NothingPending DEF Pending, TransactionInv
<1>1. \A p \in Package : Recorded(p) = svc[p]
  BY <1>0, RecordedBare
<1>2. CASE OpenClean \/ Decline \/ Kill \/ Refuse
  <2>1. UNCHANGED <<svc, bin, journal, graph>>
    BY <1>2 DEF OpenClean, Decline, Kill, Refuse, durable, vars
  <2> QED BY <1>0, <1>1, <2>1, RecordedBareNext
<1>3. CASE Remove
  <2>1. PICK p \in Package : BeginRemove(p)
    BY <1>3 DEF Remove
  <2>2. /\ UNCHANGED <<svc, bin, graph>> /\ journal' \in {journal, svc[p]}
        /\ svc[p] # Absent /\ Agree(p)
    BY <2>1 DEF BeginRemove
  <2>3. PackageOf[svc[p]] = p /\ bin[p] # Absent
    BY <1>0, <2>2, GraphAssumption DEF Settled, ReceiptsInPlace, Agree, IdentityOf, TypeInv, TypeOK
  <2>4. \A q \in Package : Recorded(q)' = IF journal' # Absent /\ PackageOf[journal'] = q
                                            THEN IF bin[q] = Absent THEN Absent ELSE journal'
                                            ELSE svc[q]
    BY <1>0, <2>2, RecordedBareNext
  <2>5. CASE journal' = journal
    BY <1>0, <1>1, <2>4, <2>5
  <2>6. CASE journal' = svc[p]
    BY <1>1, <2>2, <2>3, <2>4, <2>6
  <2> QED BY <2>2, <2>5, <2>6
<1>4. CASE InstallOrUpdate
  <2>1. PICK root \in Receipt : \E new \in SUBSET Missing(root) :
          \E o \in Orders(new \cup {root}) : BeginGraph(root, o)
    BY <1>4 DEF InstallOrUpdate
  <2>2. PICK new \in SUBSET Missing(root) :
          \E o \in Orders(new \cup {root}) : BeginGraph(root, o)
    BY <2>1
  <2>3. PICK o \in Orders(new \cup {root}) : BeginGraph(root, o)
    BY <2>2
  <2>4. UNCHANGED <<svc, bin, journal>>
    BY <2>3 DEF BeginGraph
  <2>5. \/ graph' = graph
        \/ graph' = [i \in 1..Len(o) |-> [old |-> svc[PackageOf[o[i]]], new |-> o[i]]]
    BY <2>3 DEF BeginGraph
  <2>6. CASE graph' = << >>
    BY <1>0, <1>1, <2>4, <2>6, RecordedBareNext
  <2>7. CASE graph' # << >>
    <3>1. GraphSteady'
      BY <2>7 DEF TransactionInv, GraphSteady, GraphInv, JournalInv, Pending, Touched,
                  ReceiptsInPlace, RootLast, InGraph
    <3>2. \A i \in DOMAIN graph' : graph'[i].old = svc[Pkg(graph'[i])]
      BY <1>0, <2>5, <2>7 DEF Pkg
    <3>3. \A p \in Package :
            /\ \A i \in DOMAIN graph' : Pkg(graph'[i]) = p => Recorded(p) = graph'[i].old
            /\ ~InGraph(p)' => Recorded(p) = svc'[p]
      BY <1>1, <2>4, <3>2
    <3>4. CASE Committed'
      BY <3>1, <3>3, <3>4, CommitTransacts DEF TypeInv
    <3>5. CASE ~Committed'
      <4>1. \A p \in Package :
              /\ \A i \in DOMAIN graph' : Pkg(graph'[i]) = p => Recorded(p)' = graph'[i].old
              /\ ~InGraph(p)' => Recorded(p)' = svc'[p]
        BY <3>1, <3>5, RecordedGraphNext
      <4>2. \A p \in Package : InGraph(p)' => \E i \in DOMAIN graph' : Pkg(graph'[i]) = p
        BY DEF InGraph
      <4> QED BY <3>3, <4>1, <4>2
    <3> QED BY <3>4, <3>5
  <2> QED BY <2>6, <2>7
<1> QED
  BY <1>0, <1>2, <1>3, <1>4, Guards, NoForeignWrite DEF Next, Recover, Step, TypeInv

(* Every lifecycle operation takes effect as a whole or not at all: through     *)
(* failures, deaths of the process, rollback and recovery, what is installed    *)
(* moves only by the transactions of PackageDatabase (service.rs 812, 1888).    *)
THEOREM ServiceIsDatabase ==
  ASSUME Undisturbed
  PROVE  Spec => AtomicTransactions
<1> DEFINE Db == [p \in Package |-> Recorded(p)]
<1>1. Init => Database!Init
  <2> SUFFICES ASSUME Init PROVE Database!Init
    OBVIOUS
  <2>1. \A p \in Package : Recorded(p) = Absent
    BY RecordedBare DEF Init
  <2> QED BY <2>1 DEF Database!Init
<1>2. ASSUME TypeInv, TypeInv', TransactionInv, TransactionInv', [Next]_vars
      PROVE  [Database!Next]_Db
  <2>1. CASE UNCHANGED vars
    BY <2>1 DEF vars, durable, volatile, Recorded, Committed, AllNew, NewSide, Root
  <2>2. CASE Next
    <3>1. Database!Next \/ \A p \in Package : Recorded(p)' = Recorded(p)
      BY <1>2, <2>2, GraphMovesDatabase, RemovalMovesDatabase, BeginMovesDatabase DEF Pending
    <3> QED BY <3>1
  <2> QED BY <1>2, <2>1, <2>2
<1>3. Spec => [](TypeInv /\ TransactionInv)
  <2>1. Init => TypeInv /\ TransactionInv
    BY InitTypeInv, InitTransactionInv
  <2>2. TypeInv /\ TransactionInv /\ [Next]_vars => (TypeInv /\ TransactionInv)'
    BY TypeInvNext, TransactionInvNext
  <2> QED BY <2>1, <2>2, PTL DEF Spec
<1> QED BY <1>1, <1>2, <1>3, PTL DEF Spec, AtomicTransactions, Database!Spec

-----------------------------------------------------------------------------
(* Part 3: what is recorded, with any number of foreign writers *)

(* The service receipts alone, without what TransactionInv says of ownership:   *)
(* every receipt that recovery or a rollback may write is named in a journal    *)
(* that was consistent on both of its sides when it was written, and only the   *)
(* process that holds service.lock writes these files.                          *)
RecordedShape ==
  /\ \A i, j \in DOMAIN graph : Pkg(graph[i]) = Pkg(graph[j]) => i = j
  /\ \A i \in DOMAIN graph : graph[i].old # Absent => PackageOf[graph[i].old] = Pkg(graph[i])
  /\ Consistent(BeforeGraph) /\ Consistent(AfterGraph)

GraphRecorded ==
  /\ graph # << >> /\ journal = Absent
  /\ ReceiptsInPlace
  /\ RecordedShape
  /\ \A i \in DOMAIN graph : WroteOld(i) \/ WroteNew(i)

(* How far the walk over the graph has come.                                    *)
GraphWalk ==
  /\ phase \in {"idle", "record", "deploy", "undo", "restore", "forward", "clear"}
  /\ phase \in {"record", "deploy", "restore", "forward"} => step \in DOMAIN graph
  /\ phase \in {"record", "forward"} => \A i \in DOMAIN graph : i < step => WroteNew(i)
  /\ phase = "deploy" => \A i \in DOMAIN graph : i <= step => WroteNew(i)
  /\ phase = "restore" => \A i \in DOMAIN graph : i < step => WroteOld(i)
  /\ phase = "clear" => \/ \A i \in DOMAIN graph : WroteNew(i)
                        \/ \A i \in DOMAIN graph : WroteOld(i)

RemovalRecorded ==
  /\ journal # Absent /\ graph = << >>
  /\ ReceiptsInPlace
  /\ Consistent(Others) /\ Consistent(Others \cup {journal})
  /\ svc[PackageOf[journal]] \in {Absent, journal}
  /\ phase \in {"idle", "withdraw", "erase", "reinstate", "clear"}

NothingRecorded ==
  /\ journal = Absent /\ graph = << >>
  /\ ReceiptsInPlace
  /\ Consistent(Installed)
  /\ phase \in {"idle", "ready"}

RecordedInv ==
  \/ GraphRecorded /\ GraphWalk
  \/ RemovalRecorded
  \/ NothingRecorded

(* A step of the walk: it keeps the journal and gives at most one package of    *)
(* the graph the service receipt of one of its sides.                           *)
LEMMA WalkStep ==
  ASSUME TypeOK, GraphRecorded, UNCHANGED <<graph, journal>>,
         NEW k \in DOMAIN graph, NEW r \in {graph[k].old, graph[k].new},
         svc' \in {svc, [svc EXCEPT ![Pkg(graph[k])] = r]}
  PROVE  /\ GraphRecorded'
         /\ \A i \in DOMAIN graph :
              i # k \/ svc' = svc =>
                (WroteNew(i)' <=> WroteNew(i)) /\ (WroteOld(i)' <=> WroteOld(i))
         /\ svc' = [svc EXCEPT ![Pkg(graph[k])] = r] =>
              (r = graph[k].new => WroteNew(k)') /\ (r = graph[k].old => WroteOld(k)')
<1> DEFINE q == Pkg(graph[k])
<1>0. svc \in [Package -> Receipt \cup {Absent}]
  BY DEF TypeOK
<1>1. \A i \in DOMAIN graph : Pkg(graph[i]) \in Package /\ (Pkg(graph[i]) = q => i = k)
  BY GraphTypes DEF GraphRecorded, RecordedShape
<1>2. \A p \in Package : p # q => svc'[p] = svc[p]
  BY <1>0
<1>3. svc'[q] \in {svc[q], r}
  BY <1>0, <1>1
<1>4. r # Absent => PackageOf[r] = q
  BY DEF GraphRecorded, RecordedShape, Pkg
<1>5. \A p \in Package : (InGraph(p)' <=> InGraph(p)) /\ (~InGraph(p) => p # q)
  BY DEF InGraph
<1>6. ReceiptsInPlace'
  BY <1>1, <1>2, <1>3, <1>4 DEF GraphRecorded, ReceiptsInPlace
<1>7. Untouched' = Untouched
  BY <1>2, <1>5 DEF Untouched
<1>8. RecordedShape'
  BY <1>7 DEF GraphRecorded, RecordedShape, BeforeGraph, AfterGraph
<1>9. \A i \in DOMAIN graph :
        i # k \/ svc' = svc => (WroteNew(i)' <=> WroteNew(i)) /\ (WroteOld(i)' <=> WroteOld(i))
  BY <1>1, <1>2 DEF WroteNew, WroteOld
<1>10. svc' = [svc EXCEPT ![q] = r] =>
         (r = graph[k].new => WroteNew(k)') /\ (r = graph[k].old => WroteOld(k)')
  BY <1>0, <1>1 DEF WroteNew, WroteOld
<1>11. \A i \in DOMAIN graph : WroteOld(i)' \/ WroteNew(i)'
  BY <1>9, <1>10 DEF GraphRecorded
<1> QED BY <1>6, <1>8, <1>9, <1>10, <1>11 DEF GraphRecorded

(* What a step that leaves the receipts and the journals alone keeps.           *)
LEMMA StillRecorded ==
  ASSUME UNCHANGED <<svc, graph, journal>>
  PROVE  /\ GraphRecorded => GraphRecorded'
         /\ \A i \in DOMAIN graph : (WroteNew(i)' <=> WroteNew(i)) /\ (WroteOld(i)' <=> WroteOld(i))
         /\ RemovalRecorded /\ phase' \in {"idle", "withdraw", "erase", "reinstate", "clear"}
              => RemovalRecorded'
         /\ NothingRecorded /\ phase' \in {"idle", "ready"} => NothingRecorded'
<1>1. ReceiptsInPlace => ReceiptsInPlace'
  BY DEF ReceiptsInPlace
<1>2. \A i \in DOMAIN graph : (WroteNew(i)' <=> WroteNew(i)) /\ (WroteOld(i)' <=> WroteOld(i))
  BY DEF WroteNew, WroteOld
<1>3. RecordedShape => RecordedShape'
  BY DEF RecordedShape, BeforeGraph, AfterGraph, Untouched, InGraph
<1>4. Others' = Others /\ Installed' = Installed
  BY DEF Others, Installed
<1> QED BY <1>1, <1>2, <1>3, <1>4 DEF GraphRecorded, RemovalRecorded, NothingRecorded

LEMMA NothingLeft ==
  ASSUME ReceiptsInPlace, Consistent(Installed), svc' = svc,
         journal' = Absent, graph' = << >>, phase' \in {"idle", "ready"}
  PROVE  RecordedInv'
<1>1. ReceiptsInPlace'
  BY DEF ReceiptsInPlace
<1>2. Consistent(Installed)'
  BY DEF Installed, Consistent, Supported
<1> QED BY <1>1, <1>2 DEF NothingRecorded, RecordedInv

(* A walk over the graph that is at its first entry, or over.                   *)
LEMMA WalkStarts ==
  ASSUME TypeOK, GraphRecorded, GraphRecorded', graph' = graph,
         \/ phase' \in {"idle", "undo"}
         \/ phase' \in {"restore", "forward"} /\ step' = 1
  PROVE  RecordedInv'
<1>1. 1 \in DOMAIN graph /\ \A i \in DOMAIN graph : ~(i < 1)
  BY GraphTypes DEF GraphRecorded
<1> QED BY <1>1 DEF GraphWalk, RecordedInv

LEMMA RecordWalks ==
  ASSUME TypeInv, GraphRecorded, GraphWalk, Record \/ RollForward
  PROVE  RecordedInv'
<1>0. PICK k \in DOMAIN graph : k = step
  BY DEF Record, RollForward, TypeInv, Located
<1> DEFINE e == graph[k]
           done == [svc EXCEPT ![Pkg(e)] = e.new]
<1>1. /\ phase \in {"record", "forward"} /\ UNCHANGED <<graph, journal>>
      /\ \/ svc' \in {svc, done} /\ phase' \in {"idle", "undo"}
         \/ svc' = done /\ phase' = "deploy" /\ step' = k
         \/ svc' = done /\ k < Len(graph) /\ phase' \in {"record", "forward"} /\ step' = k + 1
         \/ svc' = done /\ ~(k < Len(graph)) /\ phase' = "clear"
  BY <1>0 DEF Record, RollForward, WriteReceipt, WriteReceiptFails, NextEntry, Abort, Exit, Goto
<1>2. DOMAIN graph = 1..Len(graph) /\ Len(graph) \in Nat
  BY GraphTypes DEF TypeInv
<1>3. /\ GraphRecorded'
      /\ \A i \in DOMAIN graph : i # k => (WroteNew(i)' <=> WroteNew(i))
      /\ svc' = done => WroteNew(k)'
  BY <1>1, WalkStep DEF TypeInv
<1>4. CASE phase' \in {"idle", "undo"}
  BY <1>1, <1>3, <1>4, WalkStarts DEF TypeInv
<1>5. CASE phase' \notin {"idle", "undo"}
  <2>1. \A i \in DOMAIN graph : i <= k => WroteNew(i)'
    <3>1. \A i \in DOMAIN graph : i < k => WroteNew(i)
      BY <1>0, <1>1 DEF GraphWalk
    <3>2. \A i \in DOMAIN graph : i <= k => i < k \/ i = k
      BY <1>2
    <3> QED BY <1>1, <1>3, <1>5, <3>1, <3>2
  <2>2. CASE phase' = "deploy" /\ step' = k
    BY <1>0, <1>1, <1>3, <2>1, <2>2 DEF GraphWalk, RecordedInv
  <2>3. CASE k < Len(graph) /\ phase' \in {"record", "forward"} /\ step' = k + 1
    <3>1. k + 1 \in DOMAIN graph /\ \A i \in DOMAIN graph : i < k + 1 => i <= k
      BY <1>2, <2>3
    <3> QED BY <1>1, <1>3, <2>1, <2>3, <3>1 DEF GraphWalk, RecordedInv
  <2>4. CASE ~(k < Len(graph)) /\ phase' = "clear"
    <3>1. \A i \in DOMAIN graph : i <= k
      BY <1>2, <2>4
    <3> QED BY <1>1, <1>3, <2>1, <2>4, <3>1 DEF GraphWalk, RecordedInv
  <2> QED BY <1>1, <1>5, <2>2, <2>3, <2>4
<1> QED BY <1>4, <1>5

LEMMA RestoreWalks ==
  ASSUME TypeInv, GraphRecorded, GraphWalk, Restore
  PROVE  RecordedInv'
<1>0. PICK k \in DOMAIN graph : k = step
  BY DEF Restore, TypeInv, Located
<1> DEFINE e == graph[k]
           done == [svc EXCEPT ![Pkg(e)] = e.old]
<1>1. /\ phase = "restore" /\ UNCHANGED <<graph, journal>>
      /\ \/ svc' \in {svc, done} /\ phase' = "idle"
         \/ svc' = done /\ k < Len(graph) /\ phase' = "restore" /\ step' = k + 1
         \/ svc' = done /\ ~(k < Len(graph)) /\ phase' = "clear"
  BY <1>0 DEF Restore, PutBack, PutBackFails, WriteReceipt, WriteReceiptFails,
              RemoveReceipt, RemoveReceiptFails, NextEntry, Exit, Goto
<1>2. DOMAIN graph = 1..Len(graph) /\ Len(graph) \in Nat
  BY GraphTypes DEF TypeInv
<1>3. /\ GraphRecorded'
      /\ \A i \in DOMAIN graph : i # k => (WroteOld(i)' <=> WroteOld(i))
      /\ svc' = done => WroteOld(k)'
  BY <1>1, WalkStep DEF TypeInv
<1>4. CASE phase' = "idle"
  BY <1>1, <1>3, <1>4, WalkStarts DEF TypeInv
<1>5. CASE phase' # "idle"
  <2>1. \A i \in DOMAIN graph : i <= k => WroteOld(i)'
    <3>1. \A i \in DOMAIN graph : i < k => WroteOld(i)
      BY <1>0, <1>1 DEF GraphWalk
    <3>2. \A i \in DOMAIN graph : i <= k => i < k \/ i = k
      BY <1>2
    <3> QED BY <1>1, <1>3, <1>5, <3>1, <3>2
  <2>2. CASE k < Len(graph) /\ phase' = "restore" /\ step' = k + 1
    <3>1. k + 1 \in DOMAIN graph /\ \A i \in DOMAIN graph : i < k + 1 => i <= k
      BY <1>2, <2>2
    <3> QED BY <1>1, <1>3, <2>1, <2>2, <3>1 DEF GraphWalk, RecordedInv
  <2>3. CASE ~(k < Len(graph)) /\ phase' = "clear"
    <3>1. \A i \in DOMAIN graph : i <= k
      BY <1>2, <2>3
    <3> QED BY <1>1, <1>3, <2>1, <2>3, <3>1 DEF GraphWalk, RecordedInv
  <2> QED BY <1>1, <1>5, <2>2, <2>3
<1> QED BY <1>4, <1>5

(* An entry is deployed, or found not to be, after its receipt was written.     *)
LEMMA DeployWalks ==
  ASSUME TypeInv, GraphRecorded, GraphWalk, Deploy
  PROVE  RecordedInv'
<1>0. PICK k \in DOMAIN graph : k = step
  BY DEF Deploy, TypeInv, Located
<1>1. /\ phase = "deploy" /\ UNCHANGED <<svc, graph, journal>>
      /\ \/ phase' = "undo"
         \/ k < Len(graph) /\ phase' = "record" /\ step' = k + 1
         \/ ~(k < Len(graph)) /\ phase' = "clear"
  BY <1>0 DEF Deploy, NextDeployed, NextEntry, Abort, Goto
<1>2. DOMAIN graph = 1..Len(graph) /\ Len(graph) \in Nat
  BY GraphTypes DEF TypeInv
<1>3. GraphRecorded' /\ \A i \in DOMAIN graph : WroteNew(i)' <=> WroteNew(i)
  BY <1>1, StillRecorded
<1>4. \A i \in DOMAIN graph : i <= k => WroteNew(i)'
  BY <1>0, <1>1, <1>3 DEF GraphWalk
<1>5. CASE phase' = "undo"
  BY <1>1, <1>3, <1>5, WalkStarts DEF TypeInv
<1>6. CASE k < Len(graph) /\ phase' = "record" /\ step' = k + 1
  <2>1. k + 1 \in DOMAIN graph /\ \A i \in DOMAIN graph : i < k + 1 => i <= k
    BY <1>2, <1>6
  <2> QED BY <1>1, <1>3, <1>4, <1>6, <2>1 DEF GraphWalk, RecordedInv
<1>7. CASE ~(k < Len(graph)) /\ phase' = "clear"
  <2>1. \A i \in DOMAIN graph : i <= k
    BY <1>2, <1>7
  <2> QED BY <1>1, <1>3, <1>4, <1>7, <2>1 DEF GraphWalk, RecordedInv
<1> QED BY <1>1, <1>5, <1>6, <1>7

(* With every entry on one side, the journal can go.                            *)
LEMMA ClearGraphRecords ==
  ASSUME TypeInv, GraphRecorded, GraphWalk, Clear
  PROVE  RecordedInv'
<1>1. phase = "clear" /\ svc' = svc
  BY DEF Clear
<1>2. CASE UNCHANGED <<journal, graph>> /\ Exit
  BY <1>1, <1>2, StillRecorded, WalkStarts DEF TypeInv, Exit, Goto
<1>3. CASE journal' = Absent /\ graph' = << >> /\ phase' \in {"idle", "ready"}
  <2>1. \A i \in DOMAIN graph : Pkg(graph[i]) \in Package /\ graph[i].new # Absent
    BY GraphTypes, GraphAssumption DEF TypeInv
  <2>2. CASE \A i \in DOMAIN graph : WroteNew(i)
    <3>1. Installed = AfterGraph
      BY <2>1, <2>2 DEF Installed, AfterGraph, Untouched, InGraph, WroteNew
    <3> QED BY <1>1, <1>3, <3>1, NothingLeft DEF GraphRecorded, RecordedShape
  <2>3. CASE \A i \in DOMAIN graph : WroteOld(i)
    <3>1. Installed = BeforeGraph
      BY <2>1, <2>3 DEF Installed, BeforeGraph, Untouched, InGraph, WroteOld
    <3> QED BY <1>1, <1>3, <3>1, NothingLeft DEF GraphRecorded, RecordedShape
  <2> QED BY <1>1, <2>2, <2>3 DEF GraphWalk
<1> QED BY <1>2, <1>3 DEF Clear, Exit, Goto

(* The other steps that meet a graph leave the receipts alone.                  *)
LEMMA GraphRecords ==
  ASSUME TypeInv, GraphRecorded, GraphWalk, Next
  PROVE  RecordedInv'
<1>1. CASE Record \/ RollForward
  BY <1>1, RecordWalks
<1>2. CASE Restore
  BY <1>2, RestoreWalks
<1>3. CASE Deploy
  BY <1>3, DeployWalks
<1>4. CASE Clear
  BY <1>4, ClearGraphRecords
<1>5. CASE RecoverGraph \/ Kill \/ Undo \/ UndoDone
  <2>1. /\ UNCHANGED <<svc, graph, journal>>
        /\ \/ phase' \in {"idle", "undo"}
           \/ phase' \in {"restore", "forward"} /\ step' = 1
    BY <1>5 DEF RecoverGraph, Kill, Undo, UndoDone, Open, Exit, Goto, durable
  <2> QED BY <2>1, StillRecorded, WalkStarts DEF TypeInv
<1>6. CASE Refuse \/ ForeignWrite
  <2>1. UNCHANGED <<svc, graph, journal, phase, step>>
    BY <1>6 DEF Refuse, ForeignWrite, vars, durable, volatile
  <2>2. GraphRecorded'
        /\ \A i \in DOMAIN graph : (WroteNew(i)' <=> WroteNew(i)) /\ (WroteOld(i)' <=> WroteOld(i))
    BY <2>1, StillRecorded
  <2> QED BY <2>1, <2>2 DEF GraphWalk, RecordedInv
<1>7. ~(OpenClean \/ RecoverSingle \/ Decline \/ InstallOrUpdate \/ Remove
          \/ Withdraw \/ Erase \/ Reinstate)
  BY DEF GraphRecorded, GraphWalk, OpenClean, RecoverSingle, Decline, InstallOrUpdate, Remove,
         BeginRemove, Withdraw, Erase, Reinstate
<1> QED BY <1>1, <1>2, <1>3, <1>4, <1>5, <1>6, <1>7 DEF Next, Step, Recover

(* A removal that is pending: the receipt is there or it is not, and either way *)
(* what is recorded is consistent.                                              *)
LEMMA RemovalRecords ==
  ASSUME TypeInv, RemovalRecorded, Next
  PROVE  RecordedInv'
<1> DEFINE p == PackageOf[journal]
<1>0. p \in Package /\ svc \in [Package -> Receipt \cup {Absent}]
  BY GraphAssumption DEF RemovalRecorded, TypeInv, TypeOK
<1>1. CASE Withdraw \/ Reinstate
  <2>1. PICK r \in {Absent, journal} : svc' \in {svc, [svc EXCEPT ![p] = r]}
    BY <1>1 DEF Withdraw, Reinstate, RemoveReceipt, RemoveReceiptFails, WriteReceipt,
                WriteReceiptFails
  <2>2. UNCHANGED <<graph, journal>> /\ phase' \in {"idle", "clear", "erase"}
    BY <1>1 DEF Withdraw, Reinstate, Exit, Goto
  <2>3. (\A q \in Package : q # p => svc'[q] = svc[q]) /\ svc'[p] \in {Absent, journal}
    BY <1>0, <2>1 DEF RemovalRecorded
  <2>4. Others' = Others
    BY <2>2, <2>3 DEF Others
  <2>5. ReceiptsInPlace'
    BY <2>3 DEF RemovalRecorded, ReceiptsInPlace
  <2> QED BY <2>2, <2>3, <2>4, <2>5 DEF RemovalRecorded, RecordedInv
<1>2. CASE Clear
  <2>1. phase = "clear" /\ svc' = svc
    BY <1>2 DEF Clear
  <2>2. CASE UNCHANGED <<journal, graph>> /\ Exit
    BY <2>1, <2>2, StillRecorded DEF RecordedInv, Exit, Goto
  <2>3. CASE journal' = Absent /\ graph' = << >> /\ phase' \in {"idle", "ready"}
    <3>1. Installed \in {Others, Others \cup {journal}}
      BY <1>0 DEF RemovalRecorded, Installed, Others
    <3> QED BY <2>1, <2>3, <3>1, NothingLeft DEF RemovalRecorded
  <2> QED BY <1>2, <2>2, <2>3 DEF Clear, Exit, Goto
<1>3. CASE RecoverSingle \/ Erase \/ Kill \/ Refuse \/ ForeignWrite
  <2>1. /\ UNCHANGED <<svc, graph, journal>>
        /\ phase' \in {"idle", "withdraw", "erase", "reinstate", "clear"}
    BY <1>3 DEF RecoverSingle, Erase, Kill, Refuse, ForeignWrite, Open, Exit, Goto, durable,
                volatile, vars, RemovalRecorded
  <2> QED BY <2>1, StillRecorded DEF RecordedInv
<1>4. ~(OpenClean \/ RecoverGraph \/ Decline \/ InstallOrUpdate \/ Remove
          \/ Record \/ RollForward \/ Restore \/ Deploy \/ Undo \/ UndoDone)
  BY DEF RemovalRecorded, OpenClean, RecoverGraph, Decline, InstallOrUpdate, Remove,
         BeginRemove, Record, RollForward, Restore, Deploy, Undo, UndoDone
<1> QED BY <1>1, <1>2, <1>3, <1>4 DEF Next, Step, Recover

(* The journal of a removal: ensure_removal_safe has looked at what remains.    *)
LEMMA BeginRemoveRecords ==
  ASSUME TypeInv, NothingRecorded, NEW p \in Package, BeginRemove(p)
  PROVE  RecordedInv'
<1> DEFINE r == svc[p]
<1>1. /\ r # Absent /\ PackageOf[r] = p
      /\ UNCHANGED <<svc, graph>> /\ graph = << >> /\ journal = Absent
  BY DEF BeginRemove, NothingRecorded, ReceiptsInPlace
<1>2. phase' \in {"idle", "withdraw"} /\ (journal' = r \/ (journal' = journal /\ phase' = "idle"))
  BY DEF BeginRemove, Exit, Goto
<1>3. CASE journal' = journal /\ phase' = "idle"
  BY <1>1, <1>3, StillRecorded DEF RecordedInv
<1>4. CASE journal' = r
  <2>1. {svc[q] : q \in Package \ {p}} \ {Absent} = Installed \ {r}
    BY <1>1 DEF Installed, NothingRecorded, ReceiptsInPlace
  <2>2. Installed = (Installed \ {r}) \cup {r}
    BY <1>1 DEF Installed
  <2>3. Consistent(Installed \ {r}) /\ Consistent(Installed)
    BY DEF BeginRemove, NothingRecorded, Consistent
  <2>4. Others' = Installed \ {r}
    BY <1>1, <1>4, <2>1 DEF Others
  <2>5. (Consistent(Others) /\ Consistent(Others \cup {journal}))'
    BY <1>4, <2>2, <2>3, <2>4 DEF Consistent, Supported
  <2>6. ReceiptsInPlace'
    BY <1>1 DEF NothingRecorded, ReceiptsInPlace
  <2> QED BY <1>1, <1>2, <1>4, <2>5, <2>6 DEF RemovalRecorded, RecordedInv
<1> QED BY <1>2, <1>3, <1>4

(* The journal of an install or update: both sides of it are consistent, the    *)
(* one before because nothing was pending, the one after by the solver.         *)
LEMMA BeginGraphRecords ==
  ASSUME TypeInv, NothingRecorded, InstallOrUpdate
  PROVE  RecordedInv'
<1>1. PICK root \in Receipt : \E new \in SUBSET Missing(root) :
        Selected(root, new) /\ \E o \in Orders(new \cup {root}) : BeginGraph(root, o)
  BY DEF InstallOrUpdate
<1>2. PICK new \in SUBSET Missing(root) :
        Selected(root, new) /\ \E o \in Orders(new \cup {root}) : BeginGraph(root, o)
  BY <1>1
<1>3. PICK o \in Orders(new \cup {root}) : BeginGraph(root, o)
  BY <1>2
<1>31. new \in SUBSET Receipt
  BY DEF Missing
<1>32. /\ Len(o) \in Nat \ {0} /\ DOMAIN o = 1..Len(o)
       /\ o \in [1..Len(o) -> new \cup {root}]
  BY <1>31, OrderOfPlan
<1>33. /\ \A i, j \in DOMAIN o : o[i] = o[j] => i = j
       /\ \A r \in new \cup {root} : \E i \in DOMAIN o : o[i] = r
  BY DEF Orders
<1> DEFINE n == Len(o)
           entries == [i \in 1..n |-> [old |-> svc[PackageOf[o[i]]], new |-> o[i]]]
           target == PackageOf[root]
<1>4. UNCHANGED <<svc, journal>> /\ journal = Absent /\ graph = << >>
  BY <1>3 DEF BeginGraph, NothingRecorded
<1>5. \/ phase' = "idle" /\ graph' \in {graph, entries}
      \/ phase' = "record" /\ step' = 1 /\ graph' = entries
  BY <1>3 DEF BeginGraph, Exit, Goto
<1>6. CASE graph' = graph /\ phase' = "idle"
  BY <1>4, <1>6, StillRecorded DEF RecordedInv
<1>7. CASE graph' = entries
  <2>1. new \in SUBSET Receipt /\ \A r \in new : svc[PackageOf[r]] = Absent /\ PackageOf[r] # target
    BY DEF Missing
  <2>2. /\ n \in Nat \ {0} /\ o \in [1..n -> new \cup {root}]
        /\ \A i, j \in 1..n : o[i] = o[j] => i = j
        /\ \A r \in new \cup {root} : \E i \in 1..n : o[i] = r
    BY <1>32, <1>33
  <2> HIDE DEF n
  <2>3. /\ DOMAIN graph' = 1..n /\ graph' # << >>
        /\ \A i \in 1..n : graph'[i].new = o[i] /\ graph'[i].old = svc[PackageOf[o[i]]]
    BY <1>7, <2>2
  <2>4. \A i \in 1..n : o[i] \in Receipt /\ PackageOf[o[i]] \in Package
    BY <2>1, <2>2, GraphAssumption
  <2>5. \A p \in Package : InGraph(p)' <=> \E r \in new \cup {root} : PackageOf[r] = p
    <3>1. \A p \in Package : InGraph(p)' <=> \E i \in 1..n : PackageOf[o[i]] = p
      BY <2>3 DEF InGraph, Pkg
    <3> QED BY <2>2, <3>1
  <2>6. Untouched' = Fixed(root)
    <3>1. \A p \in Package : svc[p] # Absent => (InGraph(p)' <=> p = target)
      BY <2>1, <2>5
    <3>2. \A p \in Package : svc[p] # Absent /\ svc[p] = svc[target] => p = target
      BY GraphAssumption DEF NothingRecorded, ReceiptsInPlace
    <3> QED BY <1>4, <3>1, <3>2, GraphAssumption DEF Untouched, Fixed, Installed
  <2>7. AfterGraph' = Fixed(root) \cup new \cup {root}
    <3>1. {graph'[i].new : i \in DOMAIN graph'} = {o[i] : i \in 1..n}
      BY <2>3
    <3>2. {o[i] : i \in 1..n} \subseteq new \cup {root}
      BY <2>2
    <3>3. ASSUME NEW r \in new \cup {root} PROVE r \in {o[i] : i \in 1..n}
      <4>1. PICK i \in 1..n : o[i] = r
        BY <2>2
      <4> QED BY <4>1
    <3> QED BY <2>6, <3>1, <3>2, <3>3 DEF AfterGraph
  <2>8. {graph'[i].old : i \in DOMAIN graph'} \ {Absent} = {svc[target]} \ {Absent}
    BY <2>1, <2>2, <2>3
  <2>9. BeforeGraph' = Installed
    <3>1. target \in Package
      BY GraphAssumption
    <3> QED BY <2>6, <2>8, <3>1 DEF BeforeGraph, Fixed, Installed
  <2>10. Consistent(AfterGraph') /\ Consistent(BeforeGraph')
    BY <1>2, <2>7, <2>9 DEF Selected, Feasible, NothingRecorded
  <2>11. \A i, j \in 1..n : PackageOf[o[i]] = PackageOf[o[j]] => i = j
    <3>1. \A r, s \in new \cup {root} : PackageOf[r] = PackageOf[s] => r = s
      BY <1>2, <2>1 DEF Selected, Feasible
    <3> QED BY <2>2, <3>1
  <2>12. RecordedShape'
    <3>1. \A i, j \in DOMAIN graph' : PackageOf[graph'[i].new] = PackageOf[graph'[j].new] => i = j
      BY <2>3, <2>11
    <3>2. \A i \in DOMAIN graph' : graph'[i].old # Absent =>
            PackageOf[graph'[i].old] = PackageOf[graph'[i].new]
      BY <2>3, <2>4 DEF NothingRecorded, ReceiptsInPlace
    <3> QED BY <2>10, <3>1, <3>2 DEF RecordedShape, Pkg, Consistent, Supported
  <2>13. \A i \in DOMAIN graph' : WroteOld(i)'
    BY <1>4, <2>3 DEF WroteOld, Pkg
  <2>14. GraphRecorded'
    BY <1>4, <2>3, <2>12, <2>13 DEF GraphRecorded, NothingRecorded, ReceiptsInPlace
  <2>15. 1 \in DOMAIN graph' /\ \A i \in DOMAIN graph' : ~(i < 1)
    BY <2>2, <2>3
  <2> QED BY <1>5, <2>14, <2>15 DEF GraphWalk, RecordedInv
<1> QED BY <1>4, <1>5, <1>6, <1>7

LEMMA RecordedInvNext ==
  ASSUME TypeInv, RecordedInv, [Next]_vars
  PROVE  RecordedInv'
<1>1. CASE UNCHANGED vars
  <2>1. UNCHANGED <<svc, graph, journal, phase, step>>
    BY <1>1 DEF vars, durable, volatile
  <2>2. (GraphRecorded /\ GraphWalk)' \/ RemovalRecorded' \/ NothingRecorded'
    BY <2>1, StillRecorded DEF RecordedInv, GraphWalk, RemovalRecorded, NothingRecorded
  <2> QED BY <2>2 DEF RecordedInv
<1>2. CASE GraphRecorded /\ GraphWalk /\ Next
  BY <1>2, GraphRecords
<1>3. CASE RemovalRecorded /\ Next
  BY <1>3, RemovalRecords
<1>4. CASE NothingRecorded /\ Next
  <2>1. CASE OpenClean \/ Decline \/ Kill \/ Refuse \/ ForeignWrite
    <3>1. UNCHANGED <<svc, graph, journal>> /\ phase' \in {"idle", "ready"}
      BY <1>4, <2>1 DEF OpenClean, Decline, Kill, Refuse, ForeignWrite, Exit, Goto, durable,
                        volatile, vars, NothingRecorded
    <3> QED BY <1>4, <3>1, StillRecorded DEF RecordedInv
  <2>2. CASE InstallOrUpdate
    BY <1>4, <2>2, BeginGraphRecords
  <2>3. CASE Remove
    BY <1>4, <2>3, BeginRemoveRecords DEF Remove
  <2>4. ~(Recover \/ Step)
    BY <1>4, Guards DEF NothingRecorded, Recover, Step
  <2> QED BY <1>4, <2>1, <2>2, <2>3, <2>4 DEF Next
<1> QED BY <1>1, <1>2, <1>3, <1>4 DEF RecordedInv

(* Whatever foreign writers do to ownership, at any moment of any transaction,  *)
(* and whichever ownership receipt cannot be read: once no journal is pending,  *)
(* every requirement of an installed package is met and no two installed        *)
(* packages conflict, for every package graph.  Recovery may be misled about    *)
(* the side to choose, never into a mixture of the two (service.rs 1814-1908).  *)
THEOREM ServiceStaysConsistent == Spec => []InstalledConsistent
<1>1. Init => TypeInv /\ RecordedInv
  <2>1. Init => Installed = {}
    BY DEF Init, Installed
  <2>2. Init => RecordedInv
    BY <2>1 DEF Init, RecordedInv, NothingRecorded, ReceiptsInPlace, Consistent, Supported
  <2> QED BY <2>2, InitTypeInv
<1>2. TypeInv /\ RecordedInv /\ [Next]_vars => (TypeInv /\ RecordedInv)'
  BY TypeInvNext, RecordedInvNext
<1>3. RecordedInv => InstalledConsistent
  BY DEF RecordedInv, GraphRecorded, RemovalRecorded, NothingRecorded, InstalledConsistent, Pending
<1> QED BY <1>1, <1>2, <1>3, PTL DEF Spec
=============================================================================
