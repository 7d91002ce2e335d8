-------------------------- MODULE NodeValuesProofs --------------------------
(***************************************************************************)
(* Which values are safe from writes in place, for every graph, every body *)
(* and any number of boxes: outputs always, and everything else when no    *)
(* body assigns its argument or returns a variable that outlives it.       *)
(***************************************************************************)
EXTENDS NodeValues, TLAPS

(* The places whose box nobody else refers to: outputs, local variables,    *)
(* and the instance variables of nodes that never return theirs.            *)
Owned ==
  ({"output"} \X HasOutput) \cup ({"local"} \X Nodes) \cup
  ({"field"} \X {n \in Nodes : "field" \notin MayReturn[n]})

OwnedAlone ==
  \A p \in Owned : \A q \in Places :
    p # q /\ ref[p] # NoBox => ref[q] # ref[p]

(* No step takes a literal's box away.                                      *)
LiteralsHaveBoxes == \A l \in Literals : ref[<<"const", l>>] # NoBox

IInv == TypeOK /\ OwnedAlone /\ LiteralsHaveBoxes

(* Bodies that assign only their own variables and return no instance       *)
(* variable they assign.                                                    *)
Disciplined ==
  \A n \in Nodes :
    /\ MayAssign[n] \subseteq {"local", "field"}
    /\ "field" \notin MayReturn[n]

-----------------------------------------------------------------------------
LEMMA OwnedPlaces == Owned \subseteq Places
  BY ValuesAssumption DEF Owned, Places, Variables

LEMMA NodePlaces ==
  ASSUME NEW n \in Nodes
  PROVE  /\ <<"arg", n>> \in Places /\ <<"local", n>> \in Places
         /\ <<"field", n>> \in Places /\ <<"result", n>> \in Places
         /\ <<"value", n>> \in Places
         /\ <<"const", LiteralOf[n]>> \in Places
         /\ SourcePlace(n) \in Places
  BY ValuesAssumption DEF Places, Variables, SourcePlace

LEMMA NotOwned ==
  ASSUME NEW n \in Nodes
  PROVE  /\ <<"arg", n>> \notin Owned /\ <<"result", n>> \notin Owned
         /\ <<"value", n>> \notin Owned /\ <<"const", LiteralOf[n]>> \notin Owned
         /\ SourcePlace(n) \notin Owned
  BY ValuesAssumption DEF Owned, SourcePlace

(* make_shared returns a box nothing refers to.                             *)
LEMMA NewBox ==
  ASSUME HasNew
  PROVE  New \in Boxes /\ New # NoBox /\ \A p \in Places : ref[p] # New
  <1>1. \E b \in Boxes : b \notin Used(ref)
    BY DEF HasNew
  <1>2. New \in Boxes /\ New \notin Used(ref)
    BY <1>1 DEF New
  <1>. QED
    BY <1>2, ValuesAssumption DEF Used

(* Whatever a step does to the references, the heap stays well typed.       *)
LEMMA HeapType ==
  ASSUME NEW r, NEW h \in [Boxes -> Contents], Become(r, h)
  PROVE  heap' \in [Boxes -> Contents]
  BY ValuesAssumption DEF Become

(* A box that some place still refers to keeps what the step leaves in it.  *)
LEMMA HeapKept ==
  ASSUME TypeOK, NEW r, NEW h, Become(r, h), NEW p \in Places,
         r[p] \in Boxes
  PROVE  heap'[r[p]] = h[r[p]]
  BY ValuesAssumption DEF Become, Used

(* Three ways a step may change the references: places lose their box, ...  *)
LEMMA OwnedDropped ==
  ASSUME OwnedAlone, \A p \in Places : ref'[p] \in {ref[p], NoBox}
  PROVE  OwnedAlone'
  BY OwnedPlaces DEF OwnedAlone

(* ... or one place gets a box nobody refers to, ...                        *)
LEMMA OwnedFresh ==
  ASSUME OwnedAlone, NEW to \in Places, NEW b,
         \A p \in Places : ref[p] # b,
         ref'[to] = b,
         \A p \in Places \ {to} : ref'[p] \in {ref[p], NoBox}
  PROVE  OwnedAlone'
  BY OwnedPlaces DEF OwnedAlone

(* ... or a place that is not owned gets a box of another place, which lets *)
(* go of it if it owned it.                                                 *)
LEMMA OwnedShared ==
  ASSUME OwnedAlone, NEW to \in Places, NEW from \in Places,
         to \notin Owned,
         ref'[to] = ref[from],
         from \in Owned => ref'[from] = NoBox,
         \A p \in Places \ {to} : ref'[p] \in {ref[p], NoBox}
  PROVE  OwnedAlone'
  <1>. SUFFICES ASSUME NEW p \in Owned, NEW q \in Places, p # q, ref'[p] # NoBox
                PROVE  ref'[q] # ref'[p]
    BY DEF OwnedAlone
  <1>1. p \in Places /\ p # to /\ p # from /\ ref'[p] = ref[p]
    BY OwnedPlaces
  <1>2. CASE q = to
    BY <1>1, <1>2 DEF OwnedAlone
  <1>3. CASE q # to
    BY <1>1, <1>3 DEF OwnedAlone
  <1>. QED
    BY <1>2, <1>3

LEMMA InitIInv == Init => IInv
  <1>. SUFFICES ASSUME Init PROVE IInv
    OBVIOUS
  <1>1. \A p \in Places : p[1] = "const" => p[2] \in Literals
    BY DEF Places, Variables
  <1>2. ref \in [Places -> Boxes \cup {NoBox}]
    BY <1>1, ValuesAssumption DEF Init
  <1>3. heap \in [Boxes -> Contents]
    <2>1. PICK v \in [Literals -> Contents] :
            heap = [b \in Boxes |->
                      IF \E l \in Literals : LiteralBox[l] = b
                      THEN v[CHOOSE l \in Literals : LiteralBox[l] = b]
                      ELSE Undef]
      BY DEF Init
    <2>2. ASSUME NEW b \in Boxes PROVE heap[b] \in Contents
      <3>1. CASE \E l \in Literals : LiteralBox[l] = b
        <4>1. (CHOOSE l \in Literals : LiteralBox[l] = b) \in Literals
          BY <3>1
        <4>. QED
          BY <2>1, <3>1, <4>1
      <3>2. CASE ~ \E l \in Literals : LiteralBox[l] = b
        BY <2>1, <3>2, ValuesAssumption
      <3>. QED
        BY <3>1, <3>2
    <2>. QED
      BY <2>1, <2>2
  <1>4. pc \in [Nodes -> PCs] /\ \A n \in Nodes : pc[n] = "idle"
    BY DEF Init, PCs
  <1>5. OwnedAlone
    <2>1. \A p \in Owned : p \in Places /\ p[1] # "const"
      BY OwnedPlaces DEF Owned
    <2>. QED
      BY <2>1 DEF Init, OwnedAlone
  <1>6. LiteralsHaveBoxes
    BY ValuesAssumption DEF Init, LiteralsHaveBoxes, Places
  <1>. QED
    BY <1>2, <1>3, <1>4, <1>5, <1>6 DEF IInv, TypeOK

-----------------------------------------------------------------------------
(* Every step changes the references in one of the three ways.              *)
LEMMA StepOwned == ASSUME IInv, Next PROVE OwnedAlone'
  <1>. USE DEF IInv
  <1>0. TypeOK /\ OwnedAlone
    OBVIOUS
  <1>1. ASSUME NEW i \in Inputs, SetInput(i) PROVE OwnedAlone'
    <2>1. <<"value", i>> \in Places
      BY DEF Places
    <2>2. ref' = [ref EXCEPT ![<<"value", i>>] = New] /\ HasNew
      BY <1>1 DEF SetInput, Become
    <2>. QED
      BY <1>0, <2>1, <2>2, NewBox, OwnedFresh DEF TypeOK
  <1>2. ASSUME NEW n \in Nodes, Start(n) PROVE OwnedAlone'
    <2>1. CASE ref' = Share(ref, <<"arg", n>>, SourcePlace(n))
      BY <1>0, <2>1, NodePlaces, NotOwned, OwnedShared DEF Share, TypeOK
    <2>2. CASE HasNew /\ ref' = [ref EXCEPT ![<<"arg", n>>] = New]
      BY <1>0, <2>2, NodePlaces, NewBox, OwnedFresh DEF TypeOK
    <2>. QED
      BY <1>2, <2>1, <2>2 DEF Start, Become
  <1>3. ASSUME NEW n \in Nodes, Assign(n) PROVE OwnedAlone'
    <2>1. CASE ref' = ref
      BY <1>0, <2>1, OwnedDropped
    <2>2. ASSUME NEW k \in MayAssign[n], HasNew, ref' = [ref EXCEPT ![<<k, n>>] = New]
          PROVE  OwnedAlone'
      <3>1. <<k, n>> \in Places
        BY ValuesAssumption, NodePlaces DEF Places
      <3>. QED
        BY <1>0, <2>2, <3>1, NewBox, OwnedFresh DEF TypeOK
    <2>. QED
      BY <1>3, <2>1, <2>2 DEF Assign, Become
  <1>4. ASSUME NEW n \in Nodes, EraseField(n) PROVE OwnedAlone'
    <2>1. ref' = [ref EXCEPT ![<<"field", n>>] = NoBox]
      BY <1>4 DEF EraseField, Become
    <2>. QED
      BY <1>0, <2>1, OwnedDropped DEF TypeOK
  <1>5. ASSUME NEW n \in Nodes, ReturnShared(n) PROVE OwnedAlone'
    <2>1. ASSUME NEW k \in MayReturn[n] \cap Variables,
                 ref' = DropFrame(Share(ref, <<"result", n>>, <<k, n>>), n)
          PROVE  OwnedAlone'
      <3>1. <<k, n>> \in Places /\ <<"result", n>> \in Places /\ <<"result", n>> \notin Owned
        BY <2>1, NodePlaces, NotOwned DEF Variables
      <3>2. ref'[<<"result", n>>] = ref[<<k, n>>]
        BY <1>0, <2>1, <3>1, NodePlaces DEF DropFrame, Share, TypeOK
      <3>3. \A p \in Places \ {<<"result", n>>} : ref'[p] \in {ref[p], NoBox}
        BY <1>0, <2>1 DEF DropFrame, Share, TypeOK
      <3>4. <<k, n>> \in Owned => ref'[<<k, n>>] = NoBox
        <4>1. <<k, n>> \in Owned => k = "local"
          BY <2>1 DEF Owned, Variables
        <4>2. ref'[<<"local", n>>] = NoBox
          BY <1>0, <2>1, NodePlaces DEF DropFrame, Share, TypeOK
        <4>. QED
          BY <4>1, <4>2
      <3>. QED
        BY <1>0, <3>1, <3>2, <3>3, <3>4, OwnedShared
    <2>2. CASE ref' = DropFrame(Share(ref, <<"result", n>>, <<"const", LiteralOf[n]>>), n)
      <3>1. ref'[<<"result", n>>] = ref[<<"const", LiteralOf[n]>>]
        BY <1>0, <2>2, NodePlaces DEF DropFrame, Share, TypeOK
      <3>2. \A p \in Places \ {<<"result", n>>} : ref'[p] \in {ref[p], NoBox}
        BY <1>0, <2>2 DEF DropFrame, Share, TypeOK
      <3>. QED
        BY <1>0, <3>1, <3>2, NodePlaces, NotOwned, OwnedShared
    <2>. QED
      BY <1>5, <2>1, <2>2 DEF ReturnShared, Become
  <1>6. ASSUME NEW n \in Nodes, ReturnNew(n) PROVE OwnedAlone'
    <2>1. HasNew /\ ref' = DropFrame([ref EXCEPT ![<<"result", n>>] = New], n)
      BY <1>6 DEF ReturnNew, Become
    <2>2. ref'[<<"result", n>>] = New
      BY <1>0, <2>1, NodePlaces DEF DropFrame, TypeOK
    <2>3. \A p \in Places \ {<<"result", n>>} : ref'[p] \in {ref[p], NoBox}
      BY <1>0, <2>1 DEF DropFrame, TypeOK
    <2>. QED
      BY <1>0, <2>1, <2>2, <2>3, NodePlaces, NewBox, OwnedFresh
  <1>7. ASSUME NEW n \in Nodes, Abandon(n) PROVE OwnedAlone'
    <2>1. ref' = DropFrame(ref, n)
      BY <1>7 DEF Abandon, Become
    <2>. QED
      BY <1>0, <2>1, OwnedDropped DEF DropFrame, TypeOK
  <1>8. ASSUME NEW n \in Nodes, Publish(n) PROVE OwnedAlone'
    <2>1. ref' = Share(ref, <<"value", n>>, <<"result", n>>)
      BY <1>8 DEF Publish, Become
    <2>. QED
      BY <1>0, <2>1, NodePlaces, NotOwned, OwnedShared DEF Share, TypeOK
  <1>9. ASSUME NEW n \in Nodes, SetOutput(n) PROVE OwnedAlone'
    <2>1. HasNew /\ ref' = [ref EXCEPT ![<<"output", n>>] = New]
      BY <1>9 DEF SetOutput, Become
    <2>2. CASE <<"output", n>> \in Places
      BY <1>0, <2>1, <2>2, NewBox, OwnedFresh DEF TypeOK
    <2>3. CASE <<"output", n>> \notin Places
      BY <1>0, <2>1, <2>3, OwnedDropped DEF TypeOK
    <2>. QED
      BY <2>2, <2>3
  <1>. QED
    BY <1>1, <1>2, <1>3, <1>4, <1>5, <1>6, <1>7, <1>8, <1>9 DEF Next, Step

(* The reference part of a step's effect keeps the types.                   *)
LEMMA DropType ==
  ASSUME NEW r \in [Places -> Boxes \cup {NoBox}], NEW n \in Nodes
  PROVE  DropFrame(r, n) \in [Places -> Boxes \cup {NoBox}]
  BY DEF DropFrame

LEMMA StepType == ASSUME IInv, Next PROVE TypeOK'
  <1>0. /\ ref \in [Places -> Boxes \cup {NoBox}] /\ heap \in [Boxes -> Contents]
        /\ pc \in [Nodes -> PCs]
    BY DEF IInv, TypeOK
  <1>1. ASSUME NEW i \in Inputs, SetInput(i) PROVE TypeOK'
    <2>1. PICK v \in Contents :
            Become([ref EXCEPT ![<<"value", i>>] = New], [heap EXCEPT ![New] = v])
      BY <1>1 DEF SetInput
    <2>2. New \in Boxes
      BY <1>1, NewBox DEF SetInput
    <2>3. ref' \in [Places -> Boxes \cup {NoBox}] /\ heap' \in [Boxes -> Contents]
      <3>1. ref' \in [Places -> Boxes \cup {NoBox}]
        BY <1>0, <2>1, <2>2 DEF Become
      <3>2. heap' \in [Boxes -> Contents]
        BY <1>0, <2>1, <2>2, ValuesAssumption DEF Become
      <3>. QED
        BY <3>1, <3>2
    <2>4. /\ \A n \in Nodes : ref'[<<"arg", n>>] = ref[<<"arg", n>>]
          /\ \A n \in Nodes : ref'[<<"result", n>>] = ref[<<"result", n>>]
      BY <1>0, <2>1, NodePlaces DEF Become
    <2>5. UNCHANGED pc
      BY <1>1 DEF SetInput
    <2>. HIDE <1>1
    <2>. QED
      BY <1>0, <2>3, <2>4, <2>5 DEF IInv, TypeOK
  <1>2. ASSUME NEW n \in Nodes, Start(n) PROVE TypeOK'
    <2>1. CASE /\ ref[SourcePlace(n)] # NoBox
               /\ Become(Share(ref, <<"arg", n>>, SourcePlace(n)), heap)
      BY <1>0, <1>2, <2>1, NodePlaces, HeapType
         DEF IInv, TypeOK, PCs, Start, Goto, Become, Share
    <2>2. CASE /\ HasNew
               /\ Become([ref EXCEPT ![<<"arg", n>>] = New], [heap EXCEPT ![New] = Undef])
      <3>1. New \in Boxes /\ New # NoBox
        BY <2>2, NewBox
      <3>2. ref' \in [Places -> Boxes \cup {NoBox}] /\ heap' \in [Boxes -> Contents]
        <4>1. ref' \in [Places -> Boxes \cup {NoBox}]
          BY <1>0, <2>2, <3>1 DEF Become
        <4>2. heap' \in [Boxes -> Contents]
          BY <1>0, <2>2, <3>1, ValuesAssumption DEF Become
        <4>. QED
          BY <4>1, <4>2
      <3>. QED
        BY <1>0, <1>2, <2>2, <3>1, <3>2, NodePlaces
           DEF IInv, TypeOK, PCs, Start, Goto, Become
    <2>. QED
      BY <1>2, <2>1, <2>2 DEF Start
  <1>3. ASSUME NEW n \in Nodes, Assign(n) PROVE TypeOK'
    <2>1. PICK k \in MayAssign[n], v \in Contents :
            \/ /\ ref[<<k, n>>] # NoBox
               /\ Become(ref, [heap EXCEPT ![ref[<<k, n>>]] = v])
            \/ /\ ref[<<k, n>>] = NoBox
               /\ HasNew
               /\ Become([ref EXCEPT ![<<k, n>>] = New], [heap EXCEPT ![New] = v])
      BY <1>3 DEF Assign
    <2>0. UNCHANGED pc
      BY <1>3 DEF Assign
    <2>2. CASE Become(ref, [heap EXCEPT ![ref[<<k, n>>]] = v])
      <3>1. heap' \in [Boxes -> Contents]
        BY <1>0, <2>2, HeapType
      <3>2. ref' = ref
        BY <2>2 DEF Become
      <3>. QED
        BY <2>0, <3>1, <3>2 DEF IInv, TypeOK
    <2>3. CASE HasNew /\ Become([ref EXCEPT ![<<k, n>>] = New], [heap EXCEPT ![New] = v])
      <3>1. New \in Boxes /\ New # NoBox
        BY <2>3, NewBox
      <3>2. ref' \in [Places -> Boxes \cup {NoBox}] /\ heap' \in [Boxes -> Contents]
        <4>1. ref' \in [Places -> Boxes \cup {NoBox}]
          BY <1>0, <2>3, <3>1 DEF Become
        <4>2. heap' \in [Boxes -> Contents]
          BY <1>0, <2>3, <3>1, ValuesAssumption DEF Become
        <4>. QED
          BY <4>1, <4>2
      <3>3. \A p \in Places : ref'[p] \in {ref[p], New}
        BY <1>0, <2>3 DEF Become
      <3>. QED
        BY <1>0, <2>0, <3>1, <3>2, <3>3, NodePlaces DEF IInv, TypeOK
    <2>. QED
      BY <2>1, <2>2, <2>3
  <1>4. ASSUME NEW n \in Nodes, EraseField(n) PROVE TypeOK'
    BY <1>0, <1>4, HeapType, NodePlaces DEF IInv, TypeOK, EraseField, Become
  <1>5. ASSUME NEW n \in Nodes, ReturnShared(n) PROVE TypeOK'
    <2>1. PICK q \in Places :
            /\ ref[q] # NoBox
            /\ Become(DropFrame(Share(ref, <<"result", n>>, q), n), heap)
      <3>1. ref[<<"const", LiteralOf[n]>>] # NoBox
        BY ValuesAssumption DEF IInv, LiteralsHaveBoxes
      <3>. QED
        BY <1>5, <3>1, NodePlaces DEF ReturnShared, Variables
    <2>2. ref' \in [Places -> Boxes \cup {NoBox}] /\ heap' \in [Boxes -> Contents]
      <3>1. ref' \in [Places -> Boxes \cup {NoBox}]
        BY <1>0, <2>1, DropType DEF Become, Share
      <3>2. heap' \in [Boxes -> Contents]
        BY <1>0, <2>1, DropType, ValuesAssumption DEF Become
      <3>. QED
        BY <3>1, <3>2
    <2>3. /\ ref'[<<"result", n>>] = ref[q]
          /\ \A m \in Nodes \ {n} : /\ ref'[<<"arg", m>>] = ref[<<"arg", m>>]
                                    /\ ref'[<<"result", m>>] = ref[<<"result", m>>]
      BY <1>0, <2>1, NodePlaces DEF Become, DropFrame, Share
    <2>. QED
      BY <1>0, <1>5, <2>1, <2>2, <2>3 DEF IInv, TypeOK, PCs, ReturnShared, Goto
  <1>6. ASSUME NEW n \in Nodes, ReturnNew(n) PROVE TypeOK'
    <2>1. PICK v \in Contents :
            Become(DropFrame([ref EXCEPT ![<<"result", n>>] = New], n),
                   [heap EXCEPT ![New] = v])
      BY <1>6 DEF ReturnNew
    <2>2. New \in Boxes /\ New # NoBox
      BY <1>6, NewBox DEF ReturnNew
    <2>3. ref' \in [Places -> Boxes \cup {NoBox}] /\ heap' \in [Boxes -> Contents]
      <3>1. ref' \in [Places -> Boxes \cup {NoBox}]
        BY <1>0, <2>1, <2>2, DropType DEF Become
      <3>2. heap' \in [Boxes -> Contents]
        BY <1>0, <2>1, <2>2, DropType, ValuesAssumption DEF Become
      <3>. QED
        BY <3>1, <3>2
    <2>4. /\ ref'[<<"result", n>>] = New
          /\ \A m \in Nodes \ {n} : /\ ref'[<<"arg", m>>] = ref[<<"arg", m>>]
                                    /\ ref'[<<"result", m>>] = ref[<<"result", m>>]
      BY <1>0, <2>1, NodePlaces DEF Become, DropFrame
    <2>5. pc' = [pc EXCEPT ![n] = "returned"]
      BY <1>6 DEF ReturnNew, Goto
    <2>6. pc' \in [Nodes -> PCs]
      BY <1>0, <2>5 DEF PCs
    <2>. QED
      BY <1>0, <2>2, <2>3, <2>4, <2>5, <2>6 DEF IInv, TypeOK
  <1>7. ASSUME NEW n \in Nodes, Abandon(n) PROVE TypeOK'
    <2>1. ref' = DropFrame(ref, n)
      BY <1>7 DEF Abandon, Become
    <2>2. ref' \in [Places -> Boxes \cup {NoBox}] /\ heap' \in [Boxes -> Contents]
      <3>1. ref' \in [Places -> Boxes \cup {NoBox}]
        BY <1>0, <1>7, <2>1, DropType DEF Become, Abandon
      <3>2. heap' \in [Boxes -> Contents]
        BY <1>0, <1>7, <2>1, DropType, ValuesAssumption DEF Become, Abandon
      <3>. QED
        BY <3>1, <3>2
    <2>3. \A m \in Nodes : /\ ref'[<<"result", m>>] = ref[<<"result", m>>]
                           /\ m # n => ref'[<<"arg", m>>] = ref[<<"arg", m>>]
      BY <1>0, <2>1, NodePlaces DEF DropFrame
    <2>. QED
      BY <1>0, <1>7, <2>2, <2>3 DEF IInv, TypeOK, PCs, Abandon, Goto
  <1>8. ASSUME NEW n \in Nodes, Publish(n) PROVE TypeOK'
    BY <1>0, <1>8, HeapType, NodePlaces DEF IInv, TypeOK, PCs, Publish, Goto, Become, Share
  <1>9. ASSUME NEW n \in Nodes, SetOutput(n) PROVE TypeOK'
    <2>1. /\ HasNew
          /\ Become([ref EXCEPT ![<<"output", n>>] = New],
                    [heap EXCEPT ![New] = heap[ref[<<"result", n>>]]])
      BY <1>9 DEF SetOutput
    <2>2. New \in Boxes
      BY <2>1, NewBox
    <2>3. ref[<<"result", n>>] \in Boxes
      BY <1>0, <1>9, NodePlaces DEF IInv, TypeOK, SetOutput
    <2>4. ref' \in [Places -> Boxes \cup {NoBox}] /\ heap' \in [Boxes -> Contents]
      <3>1. ref' \in [Places -> Boxes \cup {NoBox}]
        BY <1>0, <2>1, <2>2, <2>3 DEF Become
      <3>2. heap' \in [Boxes -> Contents]
        BY <1>0, <2>1, <2>2, <2>3, ValuesAssumption DEF Become
      <3>. QED
        BY <3>1, <3>2
    <2>5. \A m \in Nodes : /\ ref'[<<"result", m>>] = ref[<<"result", m>>]
                           /\ ref'[<<"arg", m>>] = ref[<<"arg", m>>]
      BY <1>0, <2>1, NodePlaces DEF Become
    <2>6. pc' = [pc EXCEPT ![n] = "idle"]
      BY <1>9 DEF SetOutput, Goto
    <2>7. pc' \in [Nodes -> PCs]
      BY <1>0, <2>6 DEF PCs
    <2>. QED
      BY <1>0, <2>4, <2>5, <2>6, <2>7 DEF IInv, TypeOK
  <1>. QED
    BY <1>1, <1>2, <1>3, <1>4, <1>5, <1>6, <1>7, <1>8, <1>9 DEF Next, Step

(* What a body assigns is one of its node's variables.                      *)
LEMMA AssignPlace ==
  ASSUME NEW n \in Nodes, NEW k \in MayAssign[n]
  PROVE  <<k, n>> \in Places /\ k \in Variables
  BY ValuesAssumption, NodePlaces DEF Variables

(* Nothing but an assignment writes a literal's box, and no step moves it.  *)
LEMMA StepLiterals == ASSUME IInv, Next PROVE LiteralsHaveBoxes'
  <1>0. ref \in [Places -> Boxes \cup {NoBox}]
    BY DEF IInv, TypeOK
  <1>1. \A l \in Literals : <<"const", l>> \in Places
    BY DEF Places
  <1>2. ref' \in [Places -> Boxes \cup {NoBox}]
    BY StepType DEF TypeOK
  <1>3. ASSUME NEW l \in Literals PROVE ref'[<<"const", l>>] = ref[<<"const", l>>]
    <2>. DEFINE p == <<"const", l>>
    <2>1. p \in Places /\ \A k \in Variables \cup {"value", "output", "result"} : \A q : p # <<k, q>>
      BY <1>1 DEF Variables
    <2>. HIDE DEF p
    <2>2. ASSUME NEW i \in Inputs, SetInput(i) PROVE ref'[p] = ref[p]
      BY <1>0, <2>1, <2>2 DEF SetInput, Become
    <2>3. ASSUME NEW n \in Nodes, Start(n) PROVE ref'[p] = ref[p]
      BY <1>0, <2>1, <2>3 DEF Start, Become, Share, Variables
    <2>4. ASSUME NEW n \in Nodes, Assign(n) PROVE ref'[p] = ref[p]
      BY <1>0, <2>1, <2>4, AssignPlace DEF Assign, Become
    <2>5. ASSUME NEW n \in Nodes, EraseField(n) PROVE ref'[p] = ref[p]
      BY <1>0, <2>1, <2>5 DEF EraseField, Become, Variables
    <2>6. ASSUME NEW n \in Nodes, ReturnShared(n) PROVE ref'[p] = ref[p]
      <3>1. PICK q : ref' = DropFrame(Share(ref, <<"result", n>>, q), n)
        BY <2>6 DEF ReturnShared, Become
      <3>. QED
        BY <1>0, <2>1, <3>1 DEF Share, DropFrame, Variables
    <2>7. ASSUME NEW n \in Nodes, ReturnNew(n) PROVE ref'[p] = ref[p]
      BY <1>0, <2>1, <2>7 DEF ReturnNew, Become, DropFrame, Variables
    <2>8. ASSUME NEW n \in Nodes, Abandon(n) PROVE ref'[p] = ref[p]
      BY <1>0, <2>1, <2>8 DEF Abandon, Become, DropFrame, Variables
    <2>9. ASSUME NEW n \in Nodes, Publish(n) PROVE ref'[p] = ref[p]
      BY <1>0, <2>1, <2>9 DEF Publish, Become, Share
    <2>10. ASSUME NEW n \in Nodes, SetOutput(n) PROVE ref'[p] = ref[p]
      BY <1>0, <2>1, <2>10 DEF SetOutput, Become
    <2>11. ref'[p] = ref[p]
      BY <2>2, <2>3, <2>4, <2>5, <2>6, <2>7, <2>8, <2>9, <2>10 DEF Next, Step
    <2>. QED
      BY <2>11 DEF p
  <1>. QED
    BY <1>3 DEF IInv, LiteralsHaveBoxes

LEMMA NextIInv == IInv /\ [Next]_vars => IInv'
  <1>1. ASSUME IInv, Next PROVE IInv'
    BY <1>1, StepType, StepOwned, StepLiterals DEF IInv
  <1>2. ASSUME IInv, UNCHANGED vars PROVE IInv'
    BY <1>2 DEF IInv, TypeOK, OwnedAlone, LiteralsHaveBoxes, vars
  <1>. QED
    BY <1>1, <1>2

THEOREM Invariance == Spec => []IInv
  BY InitIInv, NextIInv, PTL DEF Spec

(* Every place refers to a box or to none, and a running body has its       *)
(* argument: for every graph and every script.                              *)
THEOREM TypeCorrect == Spec => []TypeOK
  <1>1. IInv => TypeOK
    BY DEF IInv
  <1>. QED
    BY <1>1, Invariance, PTL

(* The only writes in place are a running body's, through a variable it may *)
(* assign.                                                                  *)
LEMMA WriteThrough ==
  ASSUME IInv, Next, NEW p \in Places, ~Keeps(p)
  PROVE  \E n \in Nodes : \E k \in MayAssign[n] : ref[<<k, n>>] = ref[p]
  <1>0. TypeOK /\ ref[p] # NoBox /\ ref'[p] = ref[p] /\ heap'[ref[p]] # heap[ref[p]]
    BY DEF IInv, Keeps
  <1>1. ref[p] \in Boxes
    BY <1>0 DEF TypeOK
  <1>2. ASSUME NEW r, Become(r, heap) PROVE FALSE
    <2>1. r[p] = ref[p]
      BY <1>0, <1>2 DEF Become
    <2>. QED
      BY <1>0, <1>1, <1>2, <2>1, HeapKept
  <1>3. ASSUME HasNew, NEW r, NEW v, Become(r, [heap EXCEPT ![New] = v]) PROVE FALSE
    <2>1. r[p] = ref[p] /\ ref[p] # New
      BY <1>0, <1>3, NewBox DEF Become
    <2>2. [heap EXCEPT ![New] = v][ref[p]] = heap[ref[p]]
      BY <1>0, <1>1, <2>1 DEF TypeOK
    <2>3. ref[p] \in Used(r)
      BY <1>0, <2>1 DEF Used
    <2>. QED
      BY <1>0, <1>1, <1>3, <2>2, <2>3 DEF Become
  <1>4. PICK n \in Nodes : Assign(n)
    BY <1>2, <1>3
       DEF Next, Step, SetInput, Start, EraseField, ReturnShared, ReturnNew, Abandon,
           Publish, SetOutput
  <1>5. PICK k \in MayAssign[n], v \in Contents :
          Become(ref, [heap EXCEPT ![ref[<<k, n>>]] = v])
    BY <1>3, <1>4 DEF Assign
  <1>6. ref[<<k, n>>] = ref[p]
    <2>. SUFFICES ASSUME ref[<<k, n>>] # ref[p] PROVE FALSE
      OBVIOUS
    <2>1. [heap EXCEPT ![ref[<<k, n>>]] = v][ref[p]] = heap[ref[p]]
      BY <1>0, <1>1 DEF TypeOK
    <2>2. ref[p] \in Used(ref)
      BY <1>0 DEF Used
    <2>. QED
      BY <1>0, <1>1, <1>5, <2>1, <2>2 DEF Become
  <1>. QED
    BY <1>6

(* What the host reads with get_output changes only by set_output: for      *)
(* every graph and every script, because outputs are clones.                *)
THEOREM OutputsIsolated == Spec => OutputIsolated
  <1>1. ASSUME IInv, Next, NEW n \in HasOutput PROVE Keeps(<<"output", n>>)
    <2>1. <<"output", n>> \in Owned /\ <<"output", n>> \in Places
      BY OwnedPlaces DEF Owned
    <2>. SUFFICES ASSUME ~Keeps(<<"output", n>>) PROVE FALSE
      OBVIOUS
    <2>2. PICK m \in Nodes : \E k \in MayAssign[m] : ref[<<k, m>>] = ref[<<"output", n>>]
      BY <1>1, <2>1, WriteThrough
    <2>5. PICK k \in MayAssign[m] : ref[<<k, m>>] = ref[<<"output", n>>]
      BY <2>2
    <2>3. <<k, m>> # <<"output", n>> /\ <<k, m>> \in Places
      BY AssignPlace DEF Variables
    <2>4. ref[<<"output", n>>] # NoBox
      BY DEF Keeps
    <2>. QED
      BY <1>1, <2>1, <2>3, <2>4, <2>5 DEF IInv, OwnedAlone
  <1>2. IInv /\ [Next]_vars => [\A n \in HasOutput : Keeps(<<"output", n>>)]_vars
    BY <1>1
  <1>. QED
    BY <1>2, Invariance, PTL DEF Spec, OutputIsolated

(* With disciplined bodies no assignment reaches a place that is not owned. *)
LEMMA DisciplinedKeeps ==
  ASSUME Disciplined, IInv, Next, NEW p \in Places \ Owned
  PROVE  Keeps(p)
  <1>. SUFFICES ASSUME ~Keeps(p) PROVE FALSE
    OBVIOUS
  <1>1. PICK n \in Nodes : \E k \in MayAssign[n] : ref[<<k, n>>] = ref[p]
    BY WriteThrough
  <1>4. PICK k \in MayAssign[n] : ref[<<k, n>>] = ref[p]
    BY <1>1
  <1>2. <<k, n>> \in Owned
    BY DEF Disciplined, Owned
  <1>3. ref[p] # NoBox
    BY DEF Keeps
  <1>. QED
    BY <1>2, <1>3, <1>4 DEF IInv, OwnedAlone

(* Scripts whose bodies assign only local variables and instance variables  *)
(* they never return: a published value changes only when its node          *)
(* publishes again.                                                         *)
THEOREM DisciplinedPublish == Disciplined => (Spec => PublishedStable)
  <1>. SUFFICES ASSUME Disciplined PROVE Spec => PublishedStable
    OBVIOUS
  <1>1. ASSUME IInv, Next, NEW s \in Nodes \cup Inputs PROVE Keeps(<<"value", s>>)
    <2>1. <<"value", s>> \in Places \ Owned
      BY DEF Places, Owned
    <2>. QED
      BY <1>1, <2>1, DisciplinedKeeps
  <1>2. IInv /\ [Next]_vars => [\A s \in Nodes \cup Inputs : Keeps(<<"value", s>>)]_vars
    BY <1>1
  <1>. QED
    BY <1>2, Invariance, PTL DEF Spec, PublishedStable

(* ... a literal keeps its meaning ...                                      *)
THEOREM DisciplinedLiterals == Disciplined => (Spec => LiteralsConstant)
  <1>. SUFFICES ASSUME Disciplined PROVE Spec => LiteralsConstant
    OBVIOUS
  <1>1. ASSUME IInv, Next, NEW l \in Literals PROVE Keeps(<<"const", l>>)
    <2>1. <<"const", l>> \in Places \ Owned
      BY DEF Places, Owned
    <2>. QED
      BY <1>1, <2>1, DisciplinedKeeps
  <1>2. IInv /\ [Next]_vars => [\A l \in Literals : Keeps(<<"const", l>>)]_vars
    BY <1>1
  <1>. QED
    BY <1>2, Invariance, PTL DEF Spec, LiteralsConstant

(* ... and no body writes a box another running node can reach.             *)
THEOREM DisciplinedWrites == Disciplined => (Spec => []NoSharedWrites)
  <1>. SUFFICES ASSUME Disciplined PROVE Spec => []NoSharedWrites
    OBVIOUS
  <1>1. IInv => NoSharedWrites
    <2>. SUFFICES ASSUME IInv, NEW n \in Nodes, NEW m \in Nodes, NEW k \in MayAssign[n],
                         NEW j \in Variables, n # m, ref[<<k, n>>] # NoBox
                  PROVE  ref[<<j, m>>] # ref[<<k, n>>]
      BY DEF NoSharedWrites
    <2>1. <<k, n>> \in Owned
      BY DEF Disciplined, Owned
    <2>2. <<j, m>> \in Places /\ <<j, m>> # <<k, n>>
      BY NodePlaces DEF Variables
    <2>. QED
      BY <2>1, <2>2 DEF IInv, OwnedAlone
  <1>. QED
    BY <1>1, Invariance, PTL
=============================================================================
