----------------------------- MODULE JsonDocument -----------------------------
(***************************************************************************)
(* GenericDocument (rapidjson/document.h): the handler that builds a value *)
(* on a stack from the events of a reader or of a generator, what becomes  *)
(* of document and stack when it ends well or not, and who owns the pool   *)
(* (MemoryPoolAllocator) that the memory of a document is in.              *)
(***************************************************************************)
EXTENDS Naturals, Sequences, SequencesExt

CONSTANTS
  Documents,
  MaxPools,    \* the user's pool is 1
  MaxEvents    \* of a text

VARIABLES
  doc,         \* the documents that exist
  alive,       \* the pools that have not been deleted
  building,    \* the document that is the handler, 0 for none
  nesting,     \* what the reader has begun and not ended: type, count and name of each
  given        \* the events given so far

documentVars == <<doc, alive, building, nesting, given>>

User == 1
Node(type, items) == [type |-> type, items |-> items]
Null == Node("null", <<>>)

\* Those that have their memory in a pool: strings that are copied, and containers
\* that hold anything.
InMemory(node) == node.type = "copied" \/ node.items # <<>>

\* A document: the pool its memory is in, the two pointers to a pool, its stack, and
\* whether its parseResult_ is an error.
Document(allocator, own) ==
  [exists |-> TRUE, value |-> Null, pool |-> 0, allocator |-> allocator, own |-> own,
   stack |-> <<>>, error |-> FALSE]
NoDocument == [Document(0, 0) EXCEPT !.exists = FALSE]

Idle == building = 0 /\ UNCHANGED <<building, nesting, given>>

-----------------------------------------------------------------------------
(* Documents and pools.                                                    *)

\* With a pool of the user's, or one of its own.
Construct ==
  \E d \in Documents :
    /\ ~doc[d].exists /\ Idle
    /\ \/ doc' = [doc EXCEPT ![d] = Document(User, 0)] /\ UNCHANGED alive
       \/ \E new \in (2 .. MaxPools) \ alive :
            /\ \A a \in (2 .. MaxPools) \ alive : new <= a
            /\ doc' = [doc EXCEPT ![d] = Document(new, new)]
            /\ alive' = alive \cup {new}

\* The destructor: values are not destroyed one by one.
DeleteDocument ==
  \E d \in Documents :
    /\ doc[d].exists /\ Idle
    /\ doc' = [doc EXCEPT ![d] = NoDocument]
    /\ alive' = alive \ {doc[d].own}

\* Variant: the pool is still the other's own.
LeftShared(d) == [doc[d] EXCEPT !.value = Null, !.pool = 0, !.allocator = 0, !.error = FALSE]

\* What is left of a document that was moved: null, and no pool.
Left(d) == [doc[d] EXCEPT !.value = Null, !.pool = 0, !.allocator = 0, !.own = 0,
                           !.error = FALSE]

MoveConstruct ==
  \E d, e \in Documents :
    /\ ~doc[d].exists /\ doc[e].exists /\ Idle
    /\ doc' = [doc EXCEPT ![d] = doc[e], ![e] = Left(e)]
    /\ UNCHANGED alive

\* Variant: the pool of the document is not deleted.
MoveAssignKept ==
  \E d, e \in Documents :
    /\ d # e /\ doc[d].exists /\ doc[e].exists /\ Idle
    /\ doc' = [doc EXCEPT ![d] = doc[e], ![e] = Left(e)]
    /\ UNCHANGED alive

\* operator= of another document: the value is dropped, and then the pool it was in.
MoveAssign ==
  \E d, e \in Documents :
    /\ d # e /\ doc[d].exists /\ doc[e].exists /\ Idle
    /\ doc' = [doc EXCEPT ![d] = doc[e], ![e] = Left(e)]
    /\ alive' = alive \ {doc[d].own}

SwapDocuments ==
  \E d, e \in Documents :
    /\ d < e /\ doc[d].exists /\ doc[e].exists /\ Idle
    /\ doc' = [doc EXCEPT ![d] = doc[e], ![e] = doc[d]]
    /\ UNCHANGED alive

-----------------------------------------------------------------------------
(* The handler.                                                            *)

\* ParseStream, Populate: GetAllocator asserts that there is a pool.
Begin ==
  \E d \in Documents :
    /\ doc[d].exists /\ building = 0 /\ doc[d].allocator # 0
    /\ building' = d /\ nesting' = <<>> /\ given' = <<>>
    /\ UNCHANGED <<doc, alive>>

WithStack(stack) == doc' = [doc EXCEPT ![building].stack = stack] /\ UNCHANGED <<alive, building>>

stack_ == doc[building].stack

\* Where the reader is: a value, a name, or the end may come next.
Inside == Last(nesting)
ValueNext == IF nesting = <<>> THEN given = <<>> ELSE Inside.type = "array" \/ Inside.named
NameNext  == nesting # <<>> /\ Inside.type = "object" /\ ~Inside.named
Counted(n) == IF n = <<>> THEN n ELSE [n EXCEPT ![Len(n)].count = @ + 1, ![Len(n)].named = FALSE]

\* Null, Bool, Int, ..., RawNumber, String: the string is copied or not.
Value ==
  /\ building # 0 /\ ValueNext /\ Len(given) < MaxEvents
  /\ \E type \in {"plain", "copied"} :
       /\ given' = Append(given, type)
       /\ WithStack(Append(stack_, Node(type, <<>>)))
  /\ nesting' = Counted(nesting)

Key ==
  /\ building # 0 /\ NameNext /\ Len(given) < MaxEvents
  /\ given' = Append(given, "copied")
  /\ WithStack(Append(stack_, Node("copied", <<>>)))
  /\ nesting' = [nesting EXCEPT ![Len(nesting)].named = TRUE]

\* StartArray, StartObject.
Start ==
  /\ building # 0 /\ ValueNext /\ Len(given) < MaxEvents
  /\ \E type \in {"array", "object"} :
       /\ given' = Append(given, type)
       /\ WithStack(Append(stack_, Node(type, <<>>)))
       /\ nesting' = Append(Counted(nesting), [type |-> type, count |-> 0, named |-> FALSE])

\* Variant: as many values are popped as there are members.
PoppedSingle(type, count) == count

\* The values that are popped: a member is two.
Popped(type, count) == IF type = "object" THEN 2 * count ELSE count

\* EndArray, EndObject: the values above the container become its own.
End ==
  /\ building # 0 /\ nesting # <<>> /\ ~Inside.named
  /\ LET n == Popped(Inside.type, Inside.count)
         rest == SubSeq(stack_, 1, Len(stack_) - n)
     IN  WithStack([rest EXCEPT ![Len(rest)].items = SubSeq(stack_, Len(rest) + 1, Len(stack_))])
  /\ given' = Append(given, "end")
  /\ nesting' = Front(nesting)

\* Variant: the stack is left as it is when the text was wrong.
LeaveKept(d, value, pool, error) ==
  doc' = [doc EXCEPT ![d].value = value, ![d].pool = pool, ![d].error = error,
                     ![d].stack = IF error THEN @ ELSE <<>>]

\* The end of ParseStream, with ClearStackOnExit.
Leave(d, value, pool, error) ==
  doc' = [doc EXCEPT ![d].value = value, ![d].pool = pool, ![d].error = error, ![d].stack = <<>>]

Done == building' = 0 /\ nesting' = <<>> /\ given' = <<>> /\ UNCHANGED alive

\* The reader has come to the end: the one value on the stack becomes the document.
Finish ==
  /\ building # 0 /\ nesting = <<>> /\ given # <<>>
  /\ LET root == Last(stack_)
     IN  Leave(building, root, IF InMemory(root) THEN doc[building].allocator ELSE 0, FALSE)
  /\ Done

\* The text is wrong: the document stays as it was.
Fail ==
  /\ building # 0
  /\ Leave(building, doc[building].value, doc[building].pool, TRUE)
  /\ Done

DocumentInit ==
  /\ doc = [d \in Documents |-> NoDocument]
  /\ alive = {User}
  /\ building = 0 /\ nesting = <<>> /\ given = <<>>

DocumentNext ==
  \/ Construct \/ DeleteDocument \/ MoveConstruct \/ MoveAssign \/ SwapDocuments
  \/ Begin \/ Value \/ Key \/ Start \/ End \/ Finish \/ Fail

DocumentSpec == DocumentInit /\ [][DocumentNext]_documentVars

-----------------------------------------------------------------------------
(* Properties.                                                             *)

\* The counts that brackets are ended with fit the stack: an end finds the container that its
\* start has put there, below what it takes off, and the root is alone when the text is at
\* its end, as ParseStream asserts (document.h:2264, 2466-2477).
StackHoldsWhatIsOpen ==
  building # 0 =>
    IF nesting = <<>> THEN Len(stack_) = IF given = <<>> THEN 0 ELSE 1
    ELSE LET above == Popped(Inside.type, Inside.count) + (IF Inside.named THEN 1 ELSE 0)
         IN  /\ above < Len(stack_)
             /\ stack_[Len(stack_) - above] = Node(Inside.type, <<>>)

\* Whatever was given before a text turned out to be wrong, the documents keep their
\* values, and the next text starts on an empty stack (document.h:2259-2269, 2485-2492).
FailureKeepsDocument ==
  building # 0 /\ building' = 0 =>
    /\ doc'[building].stack = <<>>
    /\ doc'[building].error => doc'[building].value = doc[building].value

\* The memory of a document is in a pool that exists, that the document points to and
\* that no other document deletes, and each pool that a document made is deleted with
\* one, however documents were moved and swapped (document.h:2137-2213, 2494-2496).
MemoryIsInPools ==
  \A d \in Documents :
    doc[d].exists =>
      /\ InMemory(doc[d].value) => doc[d].pool = doc[d].allocator
      /\ doc[d].allocator # 0 => doc[d].allocator \in alive
      /\ doc[d].own # 0 => \A e \in Documents \ {d} : doc[e].own # doc[d].own
PoolsAreDeleted == \A a \in alive \ {User} : \E d \in Documents : doc[d].own = a
PoolsOutliveValues == MemoryIsInPools /\ PoolsAreDeleted

=============================================================================
