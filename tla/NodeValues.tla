----------------------------- MODULE NodeValues -----------------------------
(***************************************************************************)
(* How the values of a running graph share memory.  A valbox is a counted  *)
(* reference to a box; copying a valbox shares the box, and the assignment *)
(* operators write the box in place.  A value travels from a node to its   *)
(* readers by copying valboxes: into the reader's stack frame, into the    *)
(* returning node's return_result_, into the cell's val_; only set_output  *)
(* clones.                                                                 *)
(*                                                                         *)
(* The state is the heap of boxes and, for every place that can hold a     *)
(* valbox, the box it refers to.  Nodes run in parallel, each in one       *)
(* thread at a time (CellScheduler).  Every node has one argument, one     *)
(* local variable and one instance variable; which of them its body may    *)
(* assign and what it may return are constants.                            *)
(***************************************************************************)
EXTENDS Integers

CONSTANTS
  Nodes,      (* worker nodes                                                *)
  Inputs,     (* input nodes                                                 *)
  Literals,   (* constant expressions of the script                          *)
  Source,     (* the node, input or literal a node's argument names          *)
  LiteralOf,  (* the literal a node's definition may return                  *)
  HasOutput,  (* the nodes with an output name                               *)
  MayAssign,  (* what a node's body may assign: "arg", "local", "field"      *)
  MayReturn,  (* what it may return: those, a "literal", a "new" value       *)
  Boxes,      (* bound: the boxes alive at one time                          *)
  LiteralBox, (* the box of every literal                                    *)
  NoBox,      (* a valbox that refers to none                                *)
  Contents,   (* what a box can hold                                         *)
  Undef       (* ... among them type::UNDEFINED                              *)

Variables == {"arg", "local", "field"}

Places ==
  ({"value"}  \X (Nodes \cup Inputs)) \cup  (* cell_base::val_               *)
  ({"output"} \X HasOutput) \cup            (* outputs_                      *)
  (Variables  \X Nodes) \cup                (* stack frame and self fields   *)
  ({"result"} \X Nodes) \cup                (* return_result_                *)
  ({"const"}  \X Literals)                  (* immediate values, folded ones *)

SourcePlace(n) ==
  IF Source[n] \in Literals THEN <<"const", Source[n]>> ELSE <<"value", Source[n]>>

ASSUME ValuesAssumption ==
  /\ NoBox \notin Boxes
  /\ Undef \in Contents
  /\ Source \in [Nodes -> Nodes \cup Inputs \cup Literals]
  /\ LiteralOf \in [Nodes -> Literals]
  /\ LiteralBox \in [Literals -> Boxes]
  /\ \A k, l \in Literals : LiteralBox[k] = LiteralBox[l] => k = l
  /\ HasOutput \subseteq Nodes
  /\ MayAssign \in [Nodes -> SUBSET Variables]
  /\ MayReturn \in [Nodes -> SUBSET (Variables \cup {"literal", "new"})]
  /\ Literals \cap (Nodes \cup Inputs) = {}

VARIABLES
  ref,    (* the box every place refers to                                   *)
  heap,   (* what every box holds                                            *)
  pc      (* where every node's execution is                                 *)

vars == <<ref, heap, pc>>

PCs == {"idle", "body", "returned", "output"}

Used(r) == {r[p] : p \in Places} \ {NoBox}

(* make_shared: some box nothing refers to.                                 *)
HasNew == Boxes \ Used(ref) # {}
New    == CHOOSE b \in Boxes : b \notin Used(ref)

(* The step's references and contents; a box nothing refers to any more is  *)
(* freed.                                                                   *)
Become(r, h) ==
  /\ ref' = r
  /\ heap' = [b \in Boxes |-> IF b \in Used(r) THEN h[b] ELSE Undef]

(* A place gets a copy of another place's valbox: the same box.             *)
Share(r, to, from) == [r EXCEPT ![to] = r[from]]

(* Mutant: the frame keeps the local variable.                              *)
DropArgument(r, n) == [r EXCEPT ![<<"arg", n>>] = NoBox]

(* del_stack_frame.                                                         *)
DropFrame(r, n) == [r EXCEPT ![<<"arg", n>>] = NoBox, ![<<"local", n>>] = NoBox]

Goto(n, p) == pc' = [pc EXCEPT ![n] = p]

(* Every literal has a box of its own, made by the parser; all other places *)
(* are empty.                                                               *)
Init ==
  /\ ref = [p \in Places |-> IF p[1] = "const" THEN LiteralBox[p[2]] ELSE NoBox]
  /\ \E v \in [Literals -> Contents] :
       heap = [b \in Boxes |->
                 IF \E l \in Literals : LiteralBox[l] = b
                 THEN v[CHOOSE l \in Literals : LiteralBox[l] = b]
                 ELSE Undef]
  /\ pc = [n \in Nodes |-> "idle"]

-----------------------------------------------------------------------------
(* The host feeds a value of its own.                                       *)
SetInput(i) ==
  /\ HasNew
  /\ \E v \in Contents :
       Become([ref EXCEPT ![<<"value", i>>] = New], [heap EXCEPT ![New] = v])
  /\ UNCHANGED pc

(* Mutant: an argument without a box gets none.                             *)
StartUnallocated(n) ==
  /\ pc[n] = "idle"
  /\ Become(Share(ref, <<"arg", n>>, SourcePlace(n)), heap)
  /\ Goto(n, "body")

(* The node's argument is put on its new frame: set_local_value copies the  *)
(* source's valbox, allocating a box only when the source has none.         *)
Start(n) ==
  /\ pc[n] = "idle"
  /\ \/ /\ ref[SourcePlace(n)] # NoBox
        /\ Become(Share(ref, <<"arg", n>>, SourcePlace(n)), heap)
     \/ /\ ref[SourcePlace(n)] = NoBox
        /\ HasNew
        /\ Become([ref EXCEPT ![<<"arg", n>>] = New], [heap EXCEPT ![New] = Undef])
  /\ Goto(n, "body")

(* Mutant: the first assignment of a variable takes the right side's box.   *)
AssignByReference(n) ==
  /\ pc[n] = "body"
  /\ \E k \in MayAssign[n] :
       \/ /\ ref[<<k, n>>] # NoBox
          /\ \E v \in Contents : Become(ref, [heap EXCEPT ![ref[<<k, n>>]] = v])
       \/ /\ ref[<<k, n>>] = NoBox
          /\ \E q \in {<<"arg", n>>, <<"const", LiteralOf[n]>>} :
               Become(Share(ref, <<k, n>>, q), heap)
  /\ UNCHANGED pc

(* `a = e`, `a += e`, `++a`, ...: in place when the variable has a box; a   *)
(* first assignment creates the variable with a box of its own.             *)
Assign(n) ==
  /\ pc[n] = "body"
  /\ \E k \in MayAssign[n], v \in Contents :
       \/ /\ ref[<<k, n>>] # NoBox
          /\ Become(ref, [heap EXCEPT ![ref[<<k, n>>]] = v])
       \/ /\ ref[<<k, n>>] = NoBox
          /\ HasNew
          /\ Become([ref EXCEPT ![<<k, n>>] = New], [heap EXCEPT ![New] = v])
  /\ UNCHANGED pc

(* `this.n = undefined` removes the instance variable.                      *)
EraseField(n) ==
  /\ pc[n] = "body"
  /\ "field" \in MayAssign[n]
  /\ Become([ref EXCEPT ![<<"field", n>>] = NoBox], heap)
  /\ UNCHANGED pc

(* return of a variable or a literal: return_result_ shares its box.        *)
ReturnShared(n) ==
  /\ pc[n] = "body"
  /\ \/ \E k \in MayReturn[n] \cap Variables :
          /\ ref[<<k, n>>] # NoBox
          /\ Become(DropFrame(Share(ref, <<"result", n>>, <<k, n>>), n), heap)
     \/ /\ "literal" \in MayReturn[n]
        /\ Become(DropFrame(Share(ref, <<"result", n>>, <<"const", LiteralOf[n]>>), n), heap)
  /\ Goto(n, "returned")

(* return of a computed value.                                              *)
ReturnNew(n) ==
  /\ pc[n] = "body"
  /\ "new" \in MayReturn[n]
  /\ HasNew
  /\ \E v \in Contents :
       Become(DropFrame([ref EXCEPT ![<<"result", n>>] = New], n),
              [heap EXCEPT ![New] = v])
  /\ Goto(n, "returned")

(* The body ends with an exception, or without a return.                    *)
Abandon(n) ==
  /\ pc[n] = "body"
  /\ Become(DropFrame(ref, n), heap)
  /\ Goto(n, "idle")

(* cell_base::set_value(return_result()).                                   *)
Publish(n) ==
  /\ pc[n] = "returned"
  /\ Become(Share(ref, <<"value", n>>, <<"result", n>>), heap)
  /\ Goto(n, IF n \in HasOutput THEN "output" ELSE "idle")

(* runtime::set_output clones.                                              *)
SetOutput(n) ==
  /\ pc[n] = "output"
  /\ HasNew
  /\ Become([ref EXCEPT ![<<"output", n>>] = New],
            [heap EXCEPT ![New] = heap[ref[<<"result", n>>]]])
  /\ Goto(n, "idle")

-----------------------------------------------------------------------------
Step(n) ==
  \/ Start(n) \/ Assign(n) \/ EraseField(n) \/ ReturnShared(n) \/ ReturnNew(n)
  \/ Abandon(n) \/ Publish(n) \/ SetOutput(n)

Next == (\E i \in Inputs : SetInput(i)) \/ (\E n \in Nodes : Step(n))

Spec == Init /\ [][Next]_vars

-----------------------------------------------------------------------------
(* A running body's argument and a returned result always have a box: the   *)
(* operators that dereference them need no check.                           *)
TypeOK ==
  /\ ref \in [Places -> Boxes \cup {NoBox}]
  /\ heap \in [Boxes -> Contents]
  /\ pc \in [Nodes -> PCs]
  /\ \A n \in Nodes :
       /\ pc[n] = "body" => ref[<<"arg", n>>] # NoBox
       /\ pc[n] \in {"returned", "output"} => ref[<<"result", n>>] # NoBox

(* While a place keeps its box the box keeps its contents.                  *)
Keeps(p) == ref[p] # NoBox /\ ref'[p] = ref[p] => heap'[ref[p]] = heap[ref[p]]

(* "The value returned by the body becomes the node's output, is provided   *)
(* to other nodes": a node's value changes only when the node publishes     *)
(* another one, and an input's only when the host feeds it.                 *)
PublishedStable == [][\A s \in Nodes \cup Inputs : Keeps(<<"value", s>>)]_vars

(* What the host reads with get_output changes only by set_output.          *)
OutputIsolated == [][\A n \in HasOutput : Keeps(<<"output", n>>)]_vars

(* A literal means the same in every execution: an assignment to one is     *)
(* refused ("invalid assignment: lvalue required").                         *)
LiteralsConstant == [][\A l \in Literals : Keeps(<<"const", l>>)]_vars

(* "The interpreter safely handles node execution without requiring the     *)
(* user to manage threads and data locking": no body can write a box that   *)
(* another node running at the same time has on its frame or in its fields. *)
NoSharedWrites ==
  \A n, m \in Nodes : \A k \in MayAssign[n], j \in Variables :
    /\ n # m
    /\ pc[n] = "body" /\ pc[m] = "body"
    /\ ref[<<k, n>>] # NoBox
    => ref[<<j, m>>] # ref[<<k, n>>]
=============================================================================
