------------------------------- MODULE Stacks -------------------------------
(***************************************************************************)
(* The stacks of c++example: the array stack (Stack of stack.cc, Stack<T>  *)
(* of templatestack.cc, ArrayStack of inheritstack.cc, the same code three *)
(* times) and the ListStack on the small linked list of c++example/list.cc.*)
(* The operators take a stack record; a failed ASSERT sets aborted.        *)
(***************************************************************************)
EXTENDS Integers, Sequences, TLC, SequencesExt, FiniteSetsExt

CONSTANTS Value, Junk,  \* Junk: what new int[size] finds in its memory
          Size,         \* the argument of the array stacks' constructor
          MaxDepth,     \* bound: clients push on lower list stacks only
          Pushes        \* SelfTest's values, as many as numToPush says

VARIABLES stack, popped

vars == <<stack, popped>>

Null == 0
Address == 1..(MaxDepth + Len(Pushes))

(* Stack::Stack(sz), ListStack::ListStack *)
NewArrayStack ==
  [kind |-> "ArrayStack", top |-> 0, aborted |-> FALSE,
   stack |-> [i \in 0..(Size - 1) |-> Junk]]
NewListStack ==
  [kind |-> "ListStack", first |-> Null, last |-> Null, aborted |-> FALSE,
   element |-> << >>]

IsArray(s) == s.kind = "ArrayStack"

Full(s) == IsArray(s) /\ s.top = Size
Empty(s) == IF IsArray(s) THEN s.top = 0 ELSE s.first = Null

(* List::Prepend of c++example *)
Fresh(s) == Min(Address \ DOMAIN s.element)
Prepend(s, value) ==
  [s EXCEPT !.element = @ @@ (Fresh(s) :> [item |-> value, next |-> s.first]),
            !.first = Fresh(s),
            !.last = IF Empty(s) THEN Fresh(s) ELSE @]

(* List::Remove: the first element, which is deleted *)
RemoveElement(s) ==
  [s EXCEPT !.first = IF s.first = s.last THEN Null
                      ELSE s.element[s.first].next,
            !.last = IF s.first = s.last THEN Null ELSE @,
            !.element = [a \in DOMAIN @ \ {s.first} |-> @[a]]]

Abort(s) == [s EXCEPT !.aborted = TRUE]

(* Push: stack[top++] = value, or Prepend *)
Pushed(s, value) ==
  CASE Full(s)     -> Abort(s)
    [] ~IsArray(s) -> Prepend(s, value)
    [] OTHER       -> [s EXCEPT !.stack[s.top] = value, !.top = @ + 1]

(* Mistake: stack[top--], one above the value pushed last. *)
TopValueAbove(s) == IF IsArray(s) THEN s.stack[s.top % Size]
                    ELSE s.element[s.first].item

(* Pop returns stack[--top], or what Remove takes. *)
TopValue(s) == IF IsArray(s) THEN s.stack[s.top - 1]
               ELSE s.element[s.first].item
Popped(s) == IF IsArray(s) THEN [s EXCEPT !.top = @ - 1] ELSE RemoveElement(s)

(* SelfTest pushes its values and prints what it pops until the stack is   *)
(* empty.                                                                  *)
PushAll(s) == FoldLeft(Pushed, s, Pushes)
PopAndPrint(run, i) ==
  [s |-> Popped(run.s), printed |-> Append(run.printed, TopValue(run.s))]
PopAll(s) == FoldLeftDomain(PopAndPrint, [s |-> s, printed |-> << >>], Pushes)

-----------------------------------------------------------------------------
Init == stack \in {NewArrayStack, NewListStack} /\ popped = << >>

Running == ~stack.aborted

Push(value) ==
  /\ Running
  /\ ~IsArray(stack) => Cardinality(DOMAIN stack.element) < MaxDepth
  /\ stack' = Pushed(stack, value) /\ popped' = << >>

Pop ==
  /\ Running
  /\ IF Empty(stack) THEN stack' = Abort(stack) /\ popped' = << >>
     ELSE stack' = Popped(stack) /\ popped' = <<TopValue(stack)>>

SelfTest ==
  /\ Running /\ Empty(stack)
  /\ stack' = PopAll(PushAll(stack)).s
  /\ popped' = PopAll(PushAll(stack)).printed

(* The destructors delete the array, or every element; main goes on with   *)
(* the other kind of stack.                                                *)
Delete ==
  /\ Running /\ Empty(stack)
  /\ stack' = IF IsArray(stack) THEN NewListStack ELSE NewArrayStack
  /\ popped' = << >>

Next == (\E value \in Value : Push(value)) \/ Pop \/ SelfTest \/ Delete

Spec == Init /\ [][Next]_vars

-----------------------------------------------------------------------------
(* The values on the stack, the next to be popped first. *)
Chain ==
  LET at[i \in 1..Cardinality(DOMAIN stack.element)] ==
        IF i = 1 THEN stack.first ELSE stack.element[at[i - 1]].next
  IN  [i \in DOMAIN at |-> stack.element[at[i]].item]
Contents == IF IsArray(stack)
            THEN [i \in 1..stack.top |-> stack.stack[stack.top - i]]
            ELSE Chain

(* What the stacks promise, on their contents: last in, first out.  An     *)
(* operation ends the program, or leaves the contents and its answer.      *)
LifoChange(contents, answer) ==
  Contents' = contents /\ popped' = answer /\ stack'.aborted = FALSE
LifoAbort ==
  Contents' = Contents /\ popped' = << >> /\ stack'.aborted = TRUE

LifoPush(value) ==
  /\ stack'.kind = stack.kind
  /\ IF IsArray(stack) /\ Len(Contents) = Size THEN LifoAbort
     ELSE LifoChange(<<value>> \o Contents, << >>)
LifoPop ==
  /\ stack'.kind = stack.kind
  /\ IF Contents = << >> THEN LifoAbort
     ELSE LifoChange(Tail(Contents), <<Head(Contents)>>)
LifoSelfTest ==
  /\ stack'.kind = stack.kind
  /\ Contents = << >> /\ LifoChange(<< >>, Reverse(Pushes))
LifoDelete ==
  /\ stack'.kind # stack.kind
  /\ Contents = << >> /\ LifoChange(<< >>, << >>)

LifoNext ==
  /\ ~stack.aborted
  /\ (\E value \in Value : LifoPush(value)) \/ LifoPop \/ LifoSelfTest
                                            \/ LifoDelete

(* The stacks are last-in first-out, the array and the list alike: what is *)
(* popped, and what SelfTest prints, are the values pushed, latest first,  *)
(* up to the last place of the array.                                      *)
ImplementsLifo ==
  /\ Contents = << >> /\ popped = << >> /\ ~stack.aborted
  /\ [][LifoNext]_<<stack.kind, Contents, popped, stack.aborted>>
=============================================================================
