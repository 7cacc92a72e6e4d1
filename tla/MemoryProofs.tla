----------------------------- MODULE MemoryProofs -----------------------------
(***************************************************************************)
(* Theorems about who owns memory: documents, for any number of documents, *)
(* pools and events of a text, and pointers, for every set of slots and    *)
(* every number of tokens and calls.                                       *)
(*                                                                         *)
(* Pools (PoolInv): a document allocates in the user's pool or in its own, *)
(* no two own one, and what has been moved from owns none.                 *)
(*                                                                         *)
(* The stack of a document that is built (NestInv): the containers that    *)
(* are open lie on it in their order, one behind what the other has been   *)
(* given (Places).  An end then takes off what has come since the start,   *)
(* since the reader counts a member when its value begins.                 *)
(*                                                                         *)
(* Pointers (MemoryInv): each block and each allocator has one owner, none *)
(* is lost, and the names of a pointer are in its own block.  A call       *)
(* changes at most one pointer and what that pointer owns: Replaces says   *)
(* so of blocks and of allocators alike, and OwnedAfterReplace shows that  *)
(* it is enough.  It is, because what Malloc returns is owned by no        *)
(* pointer (UnusedIsFree), the tokens of a pointer begin its block, and a  *)
(* pointer that makes an allocator had none (Sound).  So an allocator is   *)
(* there as long as the pointer that made it, and only copies have those   *)
(* of others.                                                              *)
(***************************************************************************)
EXTENDS JsonDocument, JsonPointerMemory, TLAPS, SequenceTheorems, FiniteSetTheorems

IsDocument(x) ==
  DOMAIN x = {"exists", "value", "pool", "allocator", "own", "stack", "error"}

DocInv ==
  /\ doc = [d \in Documents |-> doc[d]]
  /\ \A d \in Documents : IsDocument(doc[d])

PoolInv ==
  /\ User \in alive /\ 0 \notin alive
  /\ \A d \in Documents :
       /\ doc[d].own # 0 => doc[d].exists /\ doc[d].own # User /\ doc[d].own \in alive
       /\ doc[d].allocator \in {0, User, doc[d].own}
       /\ InMemory(doc[d].value) => doc[d].pool = doc[d].allocator
  /\ \A d, e \in Documents : d # e /\ doc[d].own # 0 => doc[e].own # doc[d].own
  /\ PoolsAreDeleted

-----------------------------------------------------------------------------
(* What the calls do to the documents.                                     *)

LEMMA NullNeedsNoMemory == ~ InMemory(Null)
BY DEF InMemory, Null, Node

\* What is left of a document has lost its value and its pool (document.h:2192-2194).
LEMMA LeftGives ==
  ASSUME DocInv, NEW d \in Documents
  PROVE  /\ IsDocument(Left(d))
         /\ Left(d).exists = doc[d].exists /\ Left(d).stack = doc[d].stack
         /\ Left(d).own = 0 /\ Left(d).allocator = 0 /\ Left(d).value = Null
BY DEF Left, DocInv, IsDocument

\* A document that is not there.
LEMMA NoneGives ==
  /\ IsDocument(NoDocument)
  /\ NoDocument.own = 0 /\ NoDocument.allocator = 0 /\ NoDocument.value = Null /\ NoDocument.stack = <<>>
  /\ ~ NoDocument.exists
<1> DEFINE x == Document(0, 0)
<1>1. IsDocument(x)
  BY DEF IsDocument, Document
<1>2. x.own = 0 /\ x.allocator = 0 /\ x.value = Null /\ x.stack = <<>>
  BY DEF Document
<1>3. NoDocument = [x EXCEPT !.exists = FALSE]
  BY DEF NoDocument
<1> HIDE DEF x
<1> QED
  BY <1>1, <1>2, <1>3 DEF IsDocument

\* Moving takes all that a document has, and swapping exchanges it (document.h:2157-2213).
LEMMA MovedDocuments ==
  ASSUME DocInv, NEW d \in Documents, NEW e \in Documents, d # e,
         NEW x, NEW y, doc' = [doc EXCEPT ![d] = x, ![e] = y], IsDocument(x), IsDocument(y)
  PROVE  /\ DocInv'
         /\ doc'[d] = x /\ doc'[e] = y
         /\ \A c \in Documents \ {d, e} : doc'[c] = doc[c]
BY DEF DocInv

-----------------------------------------------------------------------------
(* Pools.                                                                  *)

\* Which pools there are, and which documents have them, is what PoolInv is about.
LEMMA PoolInvSame ==
  ASSUME PoolInv, alive' = alive,
         \A d \in Documents : /\ doc'[d].own = doc[d].own
                              /\ doc'[d].exists = doc[d].exists
                              /\ doc'[d].allocator = doc[d].allocator
                              /\ InMemory(doc'[d].value) => doc'[d].pool = doc'[d].allocator
  PROVE  PoolInv'
BY DEF PoolInv, PoolsAreDeleted

\* A document is made with the pool of the user, or with one that nobody has.
LEMMA ConstructKeeps ==
  ASSUME DocInv, PoolInv, Construct
  PROVE  DocInv' /\ PoolInv'
<1>1. PICK d \in Documents :
        /\ ~doc[d].exists
        /\ \/ doc' = [doc EXCEPT ![d] = Document(User, 0)] /\ UNCHANGED alive
           \/ \E new \in (2 .. MaxPools) \ alive :
                /\ doc' = [doc EXCEPT ![d] = Document(new, new)]
                /\ alive' = alive \cup {new}
  BY DEF Construct
<1>2. doc[d].own = 0
  BY <1>1 DEF PoolInv
<1>3. CASE doc' = [doc EXCEPT ![d] = Document(User, 0)] /\ UNCHANGED alive
  <2>1. /\ DocInv' /\ doc'[d] = Document(User, 0)
        /\ \A c \in Documents \ {d} : doc'[c] = doc[c]
    BY <1>3 DEF DocInv, IsDocument, Document
  <2>2. /\ doc'[d].own = 0 /\ doc'[d].exists /\ doc'[d].allocator = User
        /\ ~ InMemory(doc'[d].value)
    BY <2>1, NullNeedsNoMemory DEF Document
  <2> QED
    BY <1>2, <1>3, <2>1, <2>2 DEF PoolInv, PoolsAreDeleted
<1>4. ASSUME NEW new \in (2 .. MaxPools) \ alive,
             doc' = [doc EXCEPT ![d] = Document(new, new)], alive' = alive \cup {new}
      PROVE  DocInv' /\ PoolInv'
  <2>1. /\ DocInv' /\ doc'[d] = Document(new, new)
        /\ \A c \in Documents \ {d} : doc'[c] = doc[c]
    BY <1>4 DEF DocInv, IsDocument, Document
  <2>2. /\ doc'[d].own = new /\ doc'[d].exists /\ doc'[d].allocator = new
        /\ ~ InMemory(doc'[d].value)
    BY <2>1, NullNeedsNoMemory DEF Document
  <2>3. new # 0 /\ new # User /\ new \notin alive
    BY <1>4 DEF User
  <2>4. \A c \in Documents : doc[c].own # new
    BY <2>3 DEF PoolInv
  <2> QED
    BY <1>2, <1>4, <2>1, <2>2, <2>3, <2>4 DEF PoolInv, PoolsAreDeleted
<1> QED
  BY <1>1, <1>3, <1>4

\* A document that is destroyed takes its own pool with it.
LEMMA DocumentDeleteKeeps ==
  ASSUME DocInv, PoolInv, DeleteDocument
  PROVE  DocInv' /\ PoolInv'
<1>1. PICK d \in Documents : doc' = [doc EXCEPT ![d] = NoDocument] /\ alive' = alive \ {doc[d].own}
  BY DEF DeleteDocument
<1>2. IsDocument(NoDocument) /\ NoDocument.own = 0 /\ NoDocument.allocator = 0 /\ ~ InMemory(NoDocument.value)
  BY NoneGives, NullNeedsNoMemory DEF IsDocument
<1>3. /\ DocInv' /\ doc'[d] = NoDocument
      /\ \A c \in Documents \ {d} : doc'[c] = doc[c]
  BY <1>1, <1>2 DEF DocInv
<1>4. User # 0
  BY DEF User
<1> QED
  BY <1>1, <1>2, <1>3, <1>4 DEF PoolInv, PoolsAreDeleted

\* Moving, into a new document or into one that gives up its pool.
LEMMA MoveKeeps ==
  ASSUME DocInv, PoolInv, NEW d \in Documents, NEW e \in Documents, d # e, doc[e].exists,
         doc' = [doc EXCEPT ![d] = doc[e], ![e] = Left(e)], alive' = alive \ {doc[d].own}
  PROVE  DocInv' /\ PoolInv'
<1>1. /\ IsDocument(Left(e)) /\ Left(e).own = 0 /\ Left(e).allocator = 0
      /\ Left(e).exists = doc[e].exists /\ ~ InMemory(Left(e).value)
  BY LeftGives, NullNeedsNoMemory
<1>2. IsDocument(doc[e])
  BY DEF DocInv
<1>3. /\ DocInv'
      /\ doc'[d] = doc[e] /\ doc'[e] = Left(e)
      /\ \A c \in Documents \ {d, e} : doc'[c] = doc[c]
  BY <1>1, <1>2, MovedDocuments
<1>4. User # 0
  BY DEF User
<1>5. User \in alive' /\ 0 \notin alive'
  BY <1>4 DEF PoolInv
<1>6. ASSUME NEW c \in Documents
      PROVE  /\ doc'[c].own # 0 =>
                  doc'[c].exists /\ doc'[c].own # User /\ doc'[c].own \in alive'
             /\ doc'[c].allocator \in {0, User, doc'[c].own}
             /\ InMemory(doc'[c].value) => doc'[c].pool = doc'[c].allocator
  <2>1. ASSUME NEW x \in Documents, x # d
        PROVE  /\ doc[x].own # 0 =>
                    doc[x].exists /\ doc[x].own # User /\ doc[x].own \in alive'
               /\ doc[x].allocator \in {0, User, doc[x].own}
               /\ InMemory(doc[x].value) => doc[x].pool = doc[x].allocator
    BY <2>1 DEF PoolInv
  <2>2. CASE c = e
    BY <1>1, <1>3, <2>2
  <2>3. CASE c = d
    BY <1>3, <2>1, <2>3
  <2>4. CASE c \notin {d, e}
    <3>1. doc'[c] = doc[c]
      BY <1>3, <2>4
    <3> QED
      BY <2>1, <2>4, <3>1
  <2> QED
    BY <2>2, <2>3, <2>4
<1>7. ASSUME NEW b \in Documents, NEW c \in Documents, b # c, doc'[b].own # 0
      PROVE  doc'[c].own # doc'[b].own
  <2>1. b # e
    BY <1>1, <1>3, <1>7
  <2> DEFINE from(x) == IF x = d THEN e ELSE x
  <2>2. \A x \in Documents \ {e} : doc'[x] = doc[from(x)] /\ from(x) \in Documents
    BY <1>3
  <2>3. CASE c = e
    BY <1>1, <1>3, <1>7, <2>3
  <2>4. CASE c # e
    <3>1. from(b) # from(c)
      BY <1>7, <2>1, <2>4
    <3>2. /\ doc'[b] = doc[from(b)] /\ from(b) \in Documents
          /\ doc'[c] = doc[from(c)] /\ from(c) \in Documents
      BY <2>1, <2>2, <2>4
    <3> HIDE DEF from
    <3> QED
      BY <1>7, <3>1, <3>2 DEF PoolInv
  <2> QED
    BY <2>3, <2>4
<1>8. ASSUME NEW a \in alive' \ {User}
      PROVE  \E c \in Documents : doc'[c].own = a
  <2>1. PICK c \in Documents : doc[c].own = a /\ c # d
    BY DEF PoolInv, PoolsAreDeleted
  <2>2. a # 0
    BY DEF PoolInv
  <2> QED
    BY <1>3, <2>1, <2>2
<1> QED
  BY <1>3, <1>5, <1>6, <1>7, <1>8 DEF PoolInv, PoolsAreDeleted

\* A document that is moved hands its pool on.
LEMMA MoveConstructKeeps ==
  ASSUME DocInv, PoolInv, MoveConstruct
  PROVE  DocInv' /\ PoolInv'
<1>1. PICK d \in Documents, e \in Documents :
        /\ ~doc[d].exists /\ doc[e].exists
        /\ doc' = [doc EXCEPT ![d] = doc[e], ![e] = Left(e)]
        /\ UNCHANGED alive
  BY DEF MoveConstruct
<1>2. d # e /\ doc[d].own = 0
  BY <1>1 DEF PoolInv
<1>3. alive' = alive \ {doc[d].own}
  BY <1>1, <1>2 DEF PoolInv
<1> QED
  BY <1>1, <1>2, <1>3, MoveKeeps

\* One that is moved to gives up its own pool first.
LEMMA MoveAssignKeeps ==
  ASSUME DocInv, PoolInv, MoveAssign
  PROVE  DocInv' /\ PoolInv'
BY MoveKeeps DEF MoveAssign

\* Documents that are swapped swap their pools.
LEMMA DocumentSwapKeeps ==
  ASSUME DocInv, PoolInv, SwapDocuments
  PROVE  DocInv' /\ PoolInv'
<1>1. PICK d \in Documents, e \in Documents :
        /\ doc[d].exists /\ doc[e].exists
        /\ doc' = [doc EXCEPT ![d] = doc[e], ![e] = doc[d]]
        /\ UNCHANGED alive
  BY DEF SwapDocuments
<1>2. CASE d # e
  <2>1. /\ DocInv'
        /\ doc'[d] = doc[e] /\ doc'[e] = doc[d]
        /\ \A c \in Documents \ {d, e} : doc'[c] = doc[c]
    BY <1>1, <1>2, MovedDocuments DEF DocInv
  <2> DEFINE from(x) == IF x = d THEN e ELSE IF x = e THEN d ELSE x
  <2>2. \A x \in Documents :
          doc'[x] = doc[from(x)] /\ from(x) \in Documents /\ from(from(x)) = x
    BY <2>1
  <2>3. \A x, y \in Documents : x # y => from(x) # from(y)
    OBVIOUS
  <2> HIDE DEF from
  <2>4. \A x, y \in Documents : x # y /\ doc'[x].own # 0 => doc'[y].own # doc'[x].own
    BY <2>2, <2>3 DEF PoolInv
  <2>5. PoolsAreDeleted'
    <3> SUFFICES ASSUME NEW a \in alive \ {User} PROVE \E x \in Documents : doc'[x].own = a
      BY <1>1 DEF PoolsAreDeleted
    <3>1. PICK y \in Documents : doc[y].own = a
      BY DEF PoolInv, PoolsAreDeleted
    <3>2. from(y) \in Documents /\ doc'[from(y)] = doc[y]
      BY <2>2
    <3> QED
      BY <3>1, <3>2
  <2>6. ASSUME NEW x \in Documents
        PROVE  /\ doc'[x].own # 0 =>
                    doc'[x].exists /\ doc'[x].own # User /\ doc'[x].own \in alive'
               /\ doc'[x].allocator \in {0, User, doc'[x].own}
               /\ InMemory(doc'[x].value) => doc'[x].pool = doc'[x].allocator
    <3>1. from(x) \in Documents /\ doc'[x] = doc[from(x)] /\ alive' = alive
      BY <1>1, <2>2
    <3> QED
      BY <3>1 DEF PoolInv
  <2>7. User \in alive' /\ 0 \notin alive'
    BY <1>1 DEF PoolInv
  <2> QED
    BY <2>1, <2>4, <2>5, <2>6, <2>7 DEF PoolInv
<1>3. CASE d = e
  <2>1. doc' = doc
    BY <1>1, <1>3 DEF DocInv
  <2> QED
    BY <1>1, <2>1 DEF DocInv, PoolInv, PoolsAreDeleted
<1> QED
  BY <1>2, <1>3

-----------------------------------------------------------------------------
(* What the handler does to the documents.                                 *)

\* The handler changes a stack.
LEMMA StackKeeps ==
  ASSUME DocInv, PoolInv, NEW st, WithStack(st)
  PROVE  /\ DocInv' /\ PoolInv'
         /\ building \in Documents => doc'[building].stack = st
         /\ \A d \in Documents : d # building => doc'[d] = doc[d]
<1>1. doc' = [doc EXCEPT ![building].stack = st] /\ alive' = alive
  BY DEF WithStack
<1>2. /\ DocInv'
      /\ building \in Documents => doc'[building].stack = st
      /\ \A d \in Documents : d # building => doc'[d] = doc[d]
      /\ \A d \in Documents : /\ doc'[d].own = doc[d].own
                              /\ doc'[d].exists = doc[d].exists
                              /\ doc'[d].allocator = doc[d].allocator
                              /\ doc'[d].value = doc[d].value
                              /\ doc'[d].pool = doc[d].pool
  BY <1>1 DEF DocInv, IsDocument
<1>3. PoolInv'
  BY <1>1, <1>2, PoolInvSame DEF PoolInv
<1> QED
  BY <1>2, <1>3

\* At the end of a text the document has its value in its pool or keeps what it had
\* (document.h:2259-2269, 2421-2429).
LEMMA LeaveKeeps ==
  ASSUME DocInv, PoolInv, NEW value, NEW pool, NEW error, Leave(building, value, pool, error), Done,
         building \in Documents /\ InMemory(value) => pool = doc[building].allocator
  PROVE  /\ DocInv' /\ PoolInv'
         /\ building \in Documents => doc'[building].stack = <<>>
         /\ \A d \in Documents : d # building => doc'[d] = doc[d]
<1>1. doc' = [doc EXCEPT ![building].value = value, ![building].pool = pool,
                         ![building].error = error, ![building].stack = <<>>]
  BY DEF Leave
<1>2. ASSUME NEW d \in Documents
      PROVE  doc'[d] = IF d = building
                       THEN [doc[d] EXCEPT !.value = value, !.pool = pool, !.error = error,
                                           !.stack = <<>>]
                       ELSE doc[d]
  BY <1>1 DEF DocInv
<1>3. DOMAIN doc' = Documents /\ doc' = [d \in Documents |-> doc'[d]]
  BY <1>1 DEF DocInv
<1>4. ASSUME NEW d \in Documents
      PROVE  /\ IsDocument(doc'[d])
             /\ doc'[d].own = doc[d].own
             /\ doc'[d].exists = doc[d].exists
             /\ doc'[d].allocator = doc[d].allocator
             /\ d = building => /\ doc'[d].value = value
                                /\ doc'[d].pool = pool
                                /\ doc'[d].stack = <<>>
  BY <1>2 DEF DocInv, IsDocument
<1>5. DocInv'
  BY <1>3, <1>4 DEF DocInv
<1>6. PoolInv'
  <2>1. ASSUME NEW d \in Documents, InMemory(doc'[d].value)
        PROVE  doc'[d].pool = doc'[d].allocator
    <3>1. CASE d = building
      BY <1>4, <2>1, <3>1
    <3>2. CASE d # building
      BY <1>2, <2>1, <3>2 DEF PoolInv
    <3> QED
      BY <3>1, <3>2
  <2> QED
    BY <1>4, <2>1, PoolInvSame DEF Done
<1> QED
  BY <1>2, <1>4, <1>5, <1>6

-----------------------------------------------------------------------------
(* The stack of a document that is built.                                  *)

Level == [type : {"array", "object"}, count : Nat, named : BOOLEAN]

\* What lies on the stack above a container that has been given this much.
Above(n) == Popped(n.type, n.count) + (IF n.named THEN 1 ELSE 0)

Event == {"plain", "copied", "array", "object", "end"}

IsVector(st) == \E S : st \in Seq(S)

\* Where the containers that are open lie on the stack: the first at its bottom, each other as
\* the last that the one before it has been given, and all empty.
Places(pos, nest, some, st) ==
  LET N == Len(nest)
  IN  /\ pos \in [1 .. N -> Nat]
      /\ N # 0 => pos[1] = 1
      /\ \A k \in 1 .. N - 1 : pos[k + 1] = pos[k] + Above(nest[k])
      /\ \A j, k \in 1 .. N : j < k => pos[j] < pos[k]
      /\ \A k \in 1 .. N : pos[k] \in 1 .. Len(st) /\ st[pos[k]] = Node(nest[k].type, <<>>)
      /\ Len(st) = IF N = 0 THEN (IF some THEN 1 ELSE 0) ELSE pos[N] + Above(nest[N])

NestInv ==
  /\ nesting \in Seq(Level)
  /\ given \in Seq(Event)
  /\ nesting # <<>> => given # <<>>
  /\ \A k \in 1 .. Len(nesting) : nesting[k].type = "array" => ~nesting[k].named
  /\ \A d \in Documents : building = 0 \/ d # building => doc[d].stack = <<>>
  /\ building # 0 => /\ building \in Documents
                     /\ IsVector(stack_)
                     /\ \E pos : Places(pos, nesting, given # <<>>, stack_)

\* What an open container has been given, its members each with a name.
LEMMA AboveType ==
  ASSUME NEW n \in Level
  PROVE  /\ Above(n) \in Nat
         /\ n.type = "array" /\ ~n.named => Above(n) = n.count
         /\ n.type = "object" => Above(n) = 2 * n.count + (IF n.named THEN 1 ELSE 0)
         /\ ~n.named => Above(n) = Popped(n.type, n.count)
BY DEF Above, Popped, Level

\* A vector to which a value is pushed.
LEMMA PushedVector ==
  ASSUME NEW st, IsVector(st), NEW x
  PROVE  /\ IsVector(Append(st, x))
         /\ Len(st) \in Nat
         /\ Len(Append(st, x)) = Len(st) + 1
         /\ \A i \in 1 .. Len(st) : Append(st, x)[i] = st[i]
         /\ Append(st, x)[Len(st) + 1] = x
<1>1. PICK S : st \in Seq(S)
  BY DEF IsVector
<1>2. st \in Seq(S \cup {x})
  BY <1>1
<1>3. Append(st, x) \in Seq(S \cup {x})
  BY <1>2
<1> QED
  BY <1>2, <1>3, AppendProperties, LenProperties DEF IsVector

\* A value that begins is counted for the container it is in (reader.h:556-670): it takes the
\* place on the stack that follows what the container has.
LEMMA CountedGives ==
  ASSUME NestInv, ValueNext, nesting # <<>>
  PROVE  LET c == Counted(nesting)
             N == Len(nesting)
         IN  /\ c \in Seq(Level) /\ Len(c) = N /\ N \in Nat \ {0}
             /\ \A k \in 1 .. N : c[k] \in Level /\ c[k].type = nesting[k].type
             /\ \A k \in 1 .. N - 1 : c[k] = nesting[k]
             /\ ~c[N].named
             /\ Above(c[N]) = Above(nesting[N]) + 1
<1> DEFINE N == Len(nesting)
           n == nesting[N]
           m == [n EXCEPT !.count = @ + 1, !.named = FALSE]
           c == Counted(nesting)
<1>1. N \in Nat \ {0} /\ nesting \in Seq(Level) /\ n \in Level
  BY EmptySeq, LenProperties, ElementOfSeq DEF NestInv
<1>2. \/ n.type = "array" /\ ~n.named
      \/ n.type = "object" /\ n.named
  <2>1. n.type = "array" => ~n.named
    BY <1>1 DEF NestInv
  <2>2. n.type = "array" \/ n.named
    BY DEF ValueNext, Inside, Last
  <2>3. n.type \in {"array", "object"} /\ n.named \in BOOLEAN
    BY <1>1 DEF Level
  <2> HIDE DEF n
  <2> QED
    BY <2>1, <2>2, <2>3
<1>3. m \in Level /\ m.type = n.type /\ m.count = n.count + 1 /\ ~m.named
  <2> DEFINE more == [n EXCEPT !.count = @ + 1]
  <2> HIDE DEF n
  <2>1. more \in Level /\ more.type = n.type /\ more.count = n.count + 1
    BY <1>1 DEF Level
  <2>2. m = [more EXCEPT !.named = FALSE]
    BY <1>1 DEF Level
  <2> HIDE DEF more, m
  <2> QED
    BY <2>1, <2>2 DEF Level
<1>4. c = [nesting EXCEPT ![N] = m]
  BY DEF Counted
<1> HIDE DEF m, c, n
<1>5. n.count \in Nat
  BY <1>1 DEF Level
<1>6. Above(m) = Above(n) + 1
  <2>1. CASE n.type = "array" /\ ~n.named
    <3>1. Above(n) = n.count /\ Above(m) = m.count
      BY <1>1, <1>3, <2>1, AboveType
    <3> QED
      BY <1>3, <3>1
  <2>2. CASE n.type = "object" /\ n.named
    <3>1. Above(n) = 2 * n.count + 1
      BY <1>1, <2>2, AboveType
    <3>2. Above(m) = 2 * m.count + 0
      BY <1>3, <2>2, AboveType
    <3>3. 2 * m.count = 2 * n.count + 2
      BY <1>3, <1>5
    <3> QED
      BY <1>5, <3>1, <3>2, <3>3
  <2> QED
    BY <1>2, <2>1, <2>2
<1> HIDE DEF N
<1>7. /\ c \in Seq(Level) /\ Len(c) = N
      /\ \A k \in 1 .. N : c[k] = IF k = N THEN m ELSE nesting[k]
  BY <1>1, <1>3, <1>4, ExceptSeq, LenProperties DEF N
<1>8. \A k \in 1 .. N : nesting[k] \in Level
  BY <1>1, ElementOfSeq DEF N
<1> QED
  BY <1>1, <1>3, <1>6, <1>7, <1>8 DEF N, n, c

\* A value is pushed.
LEMMA PlacesAfterValue ==
  ASSUME NEW nest \in Seq(Level), NEW nest2 \in Seq(Level), Len(nest2) = Len(nest),
         NEW st, IsVector(st), NEW x, NEW pos, NEW some \in BOOLEAN, Places(pos, nest, some, st),
         Len(nest) = 0 => ~some,
         \A k \in 1 .. Len(nest) : nest2[k].type = nest[k].type,
         \A k \in 1 .. Len(nest) - 1 : nest2[k] = nest[k],
         Len(nest) # 0 => Above(nest2[Len(nest)]) = Above(nest[Len(nest)]) + 1
  PROVE  Places(pos, nest2, TRUE, Append(st, x))
<1> DEFINE N == Len(nest)
           st2 == Append(st, x)
<1>1. /\ IsVector(st2) /\ Len(st) \in Nat /\ Len(st2) = Len(st) + 1
      /\ \A i \in 1 .. Len(st) : st2[i] = st[i]
  BY PushedVector
<1>2. N \in Nat /\ \A k \in 1 .. N : Above(nest[k]) \in Nat
  BY LenProperties, ElementOfSeq, AboveType
<1>3. /\ pos \in [1 .. N -> Nat]
      /\ N # 0 => pos[1] = 1
      /\ \A k \in 1 .. N - 1 : pos[k + 1] = pos[k] + Above(nest[k])
      /\ \A j, k \in 1 .. N : j < k => pos[j] < pos[k]
      /\ \A k \in 1 .. N : pos[k] \in 1 .. Len(st) /\ st[pos[k]] = Node(nest[k].type, <<>>)
      /\ Len(st) = IF N = 0 THEN (IF some THEN 1 ELSE 0) ELSE pos[N] + Above(nest[N])
  BY DEF Places
<1> HIDE DEF N, st2
<1>4. \A k \in 1 .. N - 1 : pos[k + 1] = pos[k] + Above(nest2[k])
  BY <1>3 DEF N
<1>5. \A k \in 1 .. N : pos[k] \in 1 .. Len(st2) /\ st2[pos[k]] = Node(nest2[k].type, <<>>)
  <2> SUFFICES ASSUME NEW k \in 1 .. N
               PROVE  pos[k] \in 1 .. Len(st2) /\ st2[pos[k]] = Node(nest2[k].type, <<>>)
    OBVIOUS
  <2>1. pos[k] \in 1 .. Len(st) /\ st[pos[k]] = Node(nest[k].type, <<>>)
    BY <1>3
  <2>2. nest2[k].type = nest[k].type
    BY DEF N
  <2> QED
    BY <1>1, <2>1, <2>2
<1>6. Len(st2) = IF N = 0 THEN 1 ELSE pos[N] + Above(nest2[N])
  <2>1. CASE N = 0
    BY <1>1, <1>3, <2>1 DEF N
  <2>2. CASE N # 0
    <3>1. N \in 1 .. N /\ pos[N] \in Nat /\ Above(nest[N]) \in Nat
      BY <1>2, <1>3, <2>2
    <3>2. Above(nest2[N]) = Above(nest[N]) + 1
      BY <2>2 DEF N
    <3> QED
      BY <1>1, <1>3, <2>2, <3>1, <3>2
  <2> QED
    BY <2>1, <2>2
<1> QED
  BY <1>3, <1>4, <1>5, <1>6 DEF Places, N, st2

\* The handler has pushed one value.
LEMMA PushKeeps ==
  ASSUME DocInv, PoolInv, NestInv, building # 0, NEW x, NEW g \in Event,
         given' = Append(given, g), WithStack(Append(stack_, x)),
         nesting' \in Seq(Level), Len(nesting') = Len(nesting),
         nesting = <<>> => given = <<>>,
         \A k \in 1 .. Len(nesting) : nesting'[k].type = nesting[k].type,
         \A k \in 1 .. Len(nesting) - 1 : nesting'[k] = nesting[k],
         nesting # <<>> =>
           /\ Above(nesting'[Len(nesting)]) = Above(nesting[Len(nesting)]) + 1
           /\ nesting[Len(nesting)].type = "array" => ~ nesting'[Len(nesting)].named
  PROVE  DocInv' /\ PoolInv' /\ NestInv'
<1>1. /\ building \in Documents /\ IsVector(stack_)
      /\ nesting \in Seq(Level) /\ given \in Seq(Event)
  BY DEF NestInv
<1>2. PICK pos : Places(pos, nesting, given # <<>>, stack_)
  BY DEF NestInv
<1> DEFINE st2 == Append(stack_, x)
<1>3. /\ DocInv' /\ PoolInv'
      /\ doc'[building].stack = st2
      /\ \A d \in Documents : d # building => doc'[d] = doc[d]
      /\ building' = building
  BY <1>1, StackKeeps DEF WithStack
<1>4. stack_' = st2
  BY <1>3 DEF stack_
<1>5. given' \in Seq(Event) /\ given' # <<>>
  BY <1>1, AppendProperties
<1>6. IsVector(st2)
  BY <1>1, PushedVector
<1>7. Len(nesting) = 0 <=> nesting = <<>>
  BY <1>1, EmptySeq
<1>8. Places(pos, nesting', TRUE, st2)
  BY <1>1, <1>2, <1>7, PlacesAfterValue
<1>9. \A k \in 1 .. Len(nesting') : nesting'[k].type = "array" => ~ nesting'[k].named
  <2> SUFFICES ASSUME NEW k \in 1 .. Len(nesting), nesting'[k].type = "array"
               PROVE  ~ nesting'[k].named
    OBVIOUS
  <2>1. nesting[k].type = "array" /\ ~ nesting[k].named
    BY DEF NestInv
  <2>2. Len(nesting) \in Nat
    BY <1>1, LenProperties
  <2> QED
    BY <1>7, <2>1, <2>2
<1> HIDE DEF st2
<1> QED
  BY <1>1, <1>3, <1>4, <1>5, <1>6, <1>8, <1>9 DEF NestInv

\* A value that is no container goes on the top of the stack.
LEMMA ValueKeeps ==
  ASSUME DocInv, PoolInv, NestInv, Value
  PROVE  DocInv' /\ PoolInv' /\ NestInv'
<1>1. PICK type \in {"plain", "copied"} :
        given' = Append(given, type) /\ WithStack(Append(stack_, Node(type, <<>>)))
  BY DEF Value
<1>2. building # 0 /\ ValueNext /\ nesting' = Counted(nesting)
  BY DEF Value
<1>3. CASE nesting = <<>>
  <2>1. nesting' = <<>> /\ given = <<>>
    BY <1>2, <1>3 DEF Counted, ValueNext
  <2>2. Len(nesting) = 0 /\ nesting' \in Seq(Level) /\ Len(nesting') = Len(nesting)
    BY <1>3, <2>1, EmptySeq
  <2>3. /\ \A k \in 1 .. Len(nesting) : nesting'[k].type = nesting[k].type
        /\ \A k \in 1 .. Len(nesting) - 1 : nesting'[k] = nesting[k]
    BY <2>2
  <2>4. type \in Event
    BY DEF Event
  <2> QED
    BY <1>1, <1>2, <1>3, <2>1, <2>2, <2>3, <2>4, PushKeeps
<1>4. CASE nesting # <<>>
  <2> DEFINE N == Len(nesting)
  <2>1. /\ nesting' \in Seq(Level) /\ Len(nesting') = N /\ N \in Nat \ {0}
        /\ \A k \in 1 .. N : nesting'[k] \in Level /\ nesting'[k].type = nesting[k].type
        /\ \A k \in 1 .. N - 1 : nesting'[k] = nesting[k]
        /\ ~ nesting'[N].named
        /\ Above(nesting'[N]) = Above(nesting[N]) + 1
    BY <1>2, <1>4, CountedGives
  <2>2. type \in Event
    BY DEF Event
  <2> QED
    BY <1>1, <1>2, <1>4, <2>1, <2>2, PushKeeps
<1> QED
  BY <1>3, <1>4

\* A name is no member yet, but it lies on the stack (document.h:2453-2459).
LEMMA KeyKeeps ==
  ASSUME DocInv, PoolInv, NestInv, Key
  PROVE  DocInv' /\ PoolInv' /\ NestInv'
<1> DEFINE N == Len(nesting)
           n == nesting[N]
           m == [n EXCEPT !.named = TRUE]
<1>1. /\ building # 0 /\ nesting # <<>> /\ n.type = "object" /\ ~n.named
      /\ given' = Append(given, "copied") /\ WithStack(Append(stack_, Node("copied", <<>>)))
      /\ nesting' = [nesting EXCEPT ![N] = m]
  BY DEF Key, NameNext, Inside, Last
<1>2. N \in Nat \ {0} /\ nesting \in Seq(Level) /\ n \in Level
  BY <1>1, EmptySeq, LenProperties, ElementOfSeq DEF NestInv
<1> HIDE DEF n
<1>3. m \in Level /\ m.type = n.type /\ m.count = n.count /\ m.named
  BY <1>2 DEF Level
<1>4. n.count \in Nat
  BY <1>2 DEF Level
<1> HIDE DEF m
<1>5. Above(m) = Above(n) + 1
  BY <1>1, <1>2, <1>3, <1>4, AboveType
<1> HIDE DEF N
<1>6. /\ nesting' \in Seq(Level) /\ Len(nesting') = N
      /\ \A k \in 1 .. N : nesting'[k] = IF k = N THEN m ELSE nesting[k]
  BY <1>1, <1>2, <1>3, ExceptSeq, LenProperties DEF N
<1>7. /\ \A k \in 1 .. Len(nesting) : nesting'[k].type = nesting[k].type
      /\ \A k \in 1 .. Len(nesting) - 1 : nesting'[k] = nesting[k]
      /\ Above(nesting'[Len(nesting)]) = Above(nesting[Len(nesting)]) + 1
      /\ nesting[Len(nesting)].type # "array"
      /\ Len(nesting') = Len(nesting)
  <2>1. N \in 1 .. N /\ nesting'[N] = m
    BY <1>2, <1>6
  <2>2. nesting[N] = n
    BY DEF n
  <2>3. \A k \in 1 .. N : nesting'[k].type = nesting[k].type
    BY <1>3, <1>6, <2>2
  <2>4. \A k \in 1 .. N - 1 : nesting'[k] = nesting[k]
    BY <1>2, <1>6
  <2>5. n.type # "array"
    BY <1>1
  <2> QED
    BY <1>5, <1>6, <2>1, <2>2, <2>3, <2>4, <2>5 DEF N
<1>8. "copied" \in Event
  BY DEF Event
<1> QED
  BY <1>1, <1>6, <1>7, <1>8, PushKeeps

\* The container that was pushed last is open.
LEMMA PlacesAfterStart ==
  ASSUME NEW nest \in Seq(Level), NEW st, Len(st) \in Nat, NEW pos, Places(pos, nest, TRUE, st),
         NEW type \in {"array", "object"},
         \A k \in 1 .. Len(nest) : pos[k] < Len(st),
         Len(st) # 0 /\ st[Len(st)] = Node(type, <<>>)
  PROVE  LET level == [type |-> type, count |-> 0, named |-> FALSE]
         IN  Places([k \in 1 .. Len(nest) + 1 |-> IF k <= Len(nest) THEN pos[k] ELSE Len(st)],
                    Append(nest, level), TRUE, st)
<1> DEFINE N == Len(nest)
           L == Len(st)
           level == [type |-> type, count |-> 0, named |-> FALSE]
           nest2 == Append(nest, level)
           pos2 == [k \in 1 .. N + 1 |-> IF k <= N THEN pos[k] ELSE L]
<1>1. level \in Level /\ level.type = type /\ Above(level) = 0
  BY DEF Level, Above, Popped
<1>2. N \in Nat /\ \A k \in 1 .. N : nest[k] \in Level /\ Above(nest[k]) \in Nat
  BY LenProperties, ElementOfSeq, AboveType
<1> HIDE DEF level
<1>3. /\ nest2 \in Seq(Level) /\ Len(nest2) = N + 1
      /\ \A k \in 1 .. N : nest2[k] = nest[k]
      /\ nest2[N + 1] = level
  BY <1>1, AppendProperties
<1>4. /\ pos \in [1 .. N -> Nat]
      /\ N # 0 => pos[1] = 1
      /\ \A k \in 1 .. N - 1 : pos[k + 1] = pos[k] + Above(nest[k])
      /\ \A j, k \in 1 .. N : j < k => pos[j] < pos[k]
      /\ \A k \in 1 .. N : pos[k] \in 1 .. L /\ st[pos[k]] = Node(nest[k].type, <<>>)
      /\ L = IF N = 0 THEN 1 ELSE pos[N] + Above(nest[N])
  BY DEF Places
<1>5. L \in Nat \ {0} /\ st[L] = Node(type, <<>>) /\ \A k \in 1 .. N : pos[k] < L
  OBVIOUS
<1> HIDE DEF nest2, N, L
<1>6. /\ pos2 \in [1 .. N + 1 -> Nat]
      /\ \A k \in 1 .. N : pos2[k] = pos[k]
      /\ pos2[N + 1] = L
  BY <1>2, <1>4, <1>5
<1> HIDE DEF pos2
<1>7. pos2[1] = 1
  BY <1>2, <1>4, <1>6
<1>8. ASSUME NEW k \in 1 .. N
      PROVE  pos2[k + 1] = pos2[k] + Above(nest2[k])
  <2>1. pos2[k] = pos[k] /\ nest2[k] = nest[k]
    BY <1>3, <1>6
  <2>2. CASE k = N
    BY <1>2, <1>4, <1>6, <2>1, <2>2
  <2>3. CASE k # N
    <3>1. k \in 1 .. N - 1 /\ k + 1 \in 1 .. N
      BY <1>2, <2>3
    <3> QED
      BY <1>4, <1>6, <2>1, <3>1
  <2> QED
    BY <2>2, <2>3
<1>9. ASSUME NEW j \in 1 .. N + 1, NEW k \in 1 .. N + 1, j < k
      PROVE  pos2[j] < pos2[k]
  <2>1. j \in 1 .. N
    BY <1>2, <1>9
  <2>2. CASE k = N + 1
    BY <1>5, <1>6, <2>1, <2>2
  <2>3. CASE k # N + 1
    <3>1. k \in 1 .. N
      BY <1>2, <2>3
    <3> QED
      BY <1>4, <1>6, <1>9, <2>1, <3>1
  <2> QED
    BY <2>2, <2>3
<1>10. ASSUME NEW k \in 1 .. N + 1
       PROVE  pos2[k] \in 1 .. L /\ st[pos2[k]] = Node(nest2[k].type, <<>>)
  <2>1. CASE k = N + 1
    BY <1>1, <1>3, <1>5, <1>6, <2>1
  <2>2. CASE k # N + 1
    <3>1. k \in 1 .. N
      BY <1>2, <2>2
    <3> QED
      BY <1>3, <1>4, <1>6, <3>1
  <2> QED
    BY <2>1, <2>2
<1>11. L = pos2[N + 1] + Above(nest2[N + 1])
  BY <1>1, <1>3, <1>5, <1>6
<1>12. N + 1 # 0 /\ (N + 1) - 1 = N
  BY <1>2
<1>13. Places(pos2, nest2, TRUE, st)
  BY <1>3, <1>6, <1>7, <1>8, <1>9, <1>10, <1>11, <1>12 DEF Places, L
<1> QED
  BY <1>13 DEF pos2, nest2, level, N, L

\* A container that is opened lies above all that are open.
LEMMA StartKeeps ==
  ASSUME DocInv, PoolInv, NestInv, Start
  PROVE  DocInv' /\ PoolInv' /\ NestInv'
<1>1. PICK type \in {"array", "object"} :
        /\ given' = Append(given, type)
        /\ WithStack(Append(stack_, Node(type, <<>>)))
        /\ nesting' = Append(Counted(nesting), [type |-> type, count |-> 0, named |-> FALSE])
  BY DEF Start
<1>2. building # 0 /\ ValueNext
  BY DEF Start
<1>3. /\ building \in Documents /\ IsVector(stack_)
      /\ nesting \in Seq(Level) /\ given \in Seq(Event)
  BY <1>2 DEF NestInv
<1>4. PICK pos : Places(pos, nesting, given # <<>>, stack_)
  BY <1>2 DEF NestInv
<1> DEFINE x == Node(type, <<>>)
           st2 == Append(stack_, x)
           c == Counted(nesting)
           N == Len(nesting)
           level == [type |-> type, count |-> 0, named |-> FALSE]
<1>5. /\ DocInv' /\ PoolInv'
      /\ doc'[building].stack = st2
      /\ \A d \in Documents : d # building => doc'[d] = doc[d]
      /\ building' = building
  BY <1>1, <1>3, StackKeeps DEF WithStack
<1>6. stack_' = st2
  BY <1>5 DEF stack_
<1>7. given' \in Seq(Event) /\ given' # <<>>
  <2>1. type \in Event
    BY DEF Event
  <2> QED
    BY <1>1, <1>3, <2>1, AppendProperties
<1>8. /\ c \in Seq(Level) /\ Len(c) = N /\ N \in Nat
      /\ \A k \in 1 .. N : c[k].type = nesting[k].type
      /\ \A k \in 1 .. N - 1 : c[k] = nesting[k]
      /\ N # 0 => ~ c[N].named /\ Above(c[N]) = Above(nesting[N]) + 1
      /\ N = 0 => given = <<>>
  <2>1. CASE nesting = <<>>
    <3>1. c = <<>> /\ given = <<>>
      BY <1>2, <2>1 DEF Counted, ValueNext
    <3>2. N = 0 /\ c \in Seq(Level) /\ Len(c) = 0
      BY <2>1, <3>1, EmptySeq
    <3> HIDE DEF c, N
    <3> QED
      BY <3>1, <3>2
  <2>2. CASE nesting # <<>>
    BY <1>2, <2>2, CountedGives
  <2> QED
    BY <2>1, <2>2
<1>9. /\ IsVector(st2) /\ Len(stack_) \in Nat /\ Len(st2) = Len(stack_) + 1
      /\ st2[Len(st2)] = x
  BY <1>3, PushedVector
<1> HIDE DEF st2, c, x
<1>10. Places(pos, c, TRUE, st2)
  BY <1>3, <1>4, <1>8, PlacesAfterValue DEF st2
<1>11. \A k \in 1 .. N : pos[k] < Len(st2)
  BY <1>4, <1>9 DEF Places
<1>12. \E pos2 : Places(pos2, Append(c, level), TRUE, st2)
  <2>1. Len(st2) \in Nat /\ Len(st2) # 0 /\ st2[Len(st2)] = Node(type, <<>>)
    BY <1>9 DEF x
  <2>2. \A k \in 1 .. Len(c) : pos[k] < Len(st2)
    BY <1>8, <1>11
  <2>3. Places([k \in 1 .. Len(c) + 1 |-> IF k <= Len(c) THEN pos[k] ELSE Len(st2)],
               Append(c, level), TRUE, st2)
    <3>1. c \in Seq(Level)
      BY <1>8
    <3> QED
      BY <1>10, <2>1, <2>2, <3>1, PlacesAfterStart
  <2> QED
    BY <2>3
<1>13. level \in Level /\ ~ level.named
  BY DEF Level
<1>14. nesting' = Append(c, level)
  BY <1>1 DEF c
<1> HIDE DEF level
<1>15. /\ nesting' \in Seq(Level) /\ Len(nesting') = N + 1
       /\ \A k \in 1 .. N : nesting'[k] = c[k]
       /\ nesting'[N + 1] = level
  BY <1>8, <1>13, <1>14, AppendProperties
<1>16. \A k \in 1 .. Len(nesting') : nesting'[k].type = "array" => ~ nesting'[k].named
  <2>1. \A k \in 1 .. N : nesting[k].type = "array" => ~ nesting[k].named
    BY DEF NestInv
  <2>2. ASSUME NEW k \in 1 .. N, c[k].type = "array" PROVE ~ c[k].named
    <3>1. k = N \/ k \in 1 .. N - 1
      BY <1>8
    <3> HIDE DEF N
    <3> QED
      BY <1>8, <2>1, <2>2, <3>1
  <2> HIDE DEF N
  <2>3. \A k \in 1 .. N + 1 : k = N + 1 \/ k \in 1 .. N
    BY <1>8
  <2> QED
    BY <1>13, <1>15, <2>2, <2>3
<1>17. IsVector(stack_') /\ \E pos2 : Places(pos2, nesting', given' # <<>>, stack_')
  BY <1>6, <1>7, <1>9, <1>12, <1>14
<1> HIDE DEF N
<1>18. \A d \in Documents : building' = 0 \/ d # building' => doc'[d].stack = <<>>
  BY <1>2, <1>5 DEF NestInv
<1> QED
  BY <1>3, <1>5, <1>7, <1>15, <1>16, <1>17, <1>18 DEF NestInv

\* All of a sequence but its last.
LEMMA FrontGives ==
  ASSUME NEW S, NEW s \in Seq(S), s # <<>>
  PROVE  /\ Front(s) \in Seq(S)
         /\ Len(Front(s)) = Len(s) - 1
         /\ \A i \in 1 .. Len(s) - 1 : Front(s)[i] = s[i]
<1> DEFINE n == Len(s) - 1
           f == SubSeq(s, 1, n)
<1>1. n \in Nat
  BY EmptySeq
<1>2. \A i \in 1 .. n : s[i] \in S
  BY <1>1, ElementOfSeq
<1>3. 1 \in Int /\ n \in Int
  BY <1>1
<1> HIDE DEF n
<1>4. /\ f \in Seq(S) /\ Len(f) = IF 1 <= n THEN n - 1 + 1 ELSE 0
      /\ \A i \in 1 .. n - 1 + 1 : f[i] = s[1 + i - 1]
  BY <1>2, <1>3, SubSeqProperties
<1> HIDE DEF f
<1>5. Len(f) = n /\ \A i \in 1 .. n : f[i] = s[i]
  BY <1>1, <1>4
<1> QED
  BY <1>4, <1>5 DEF Front, f, n

\* The container that was opened last is closed: it is the last value of the one around it.
LEMMA PlacesAfterEnd ==
  ASSUME NEW nest \in Seq(Level), nest # <<>>, NEW st, NEW st2, NEW pos, NEW some \in BOOLEAN,
         Places(pos, nest, some, st),
         Len(st2) = pos[Len(nest)],
         \A i \in 1 .. Len(st2) - 1 : st2[i] = st[i]
  PROVE  Front(nest) \in Seq(Level) /\ \E pos2 : Places(pos2, Front(nest), TRUE, st2)
<1> DEFINE N == Len(nest)
           nest2 == Front(nest)
           pos2 == [k \in 1 .. N - 1 |-> pos[k]]
<1>1. N \in Nat \ {0} /\ \A k \in 1 .. N : nest[k] \in Level /\ Above(nest[k]) \in Nat
  BY EmptySeq, LenProperties, ElementOfSeq, AboveType
<1>2. /\ nest2 \in Seq(Level) /\ Len(nest2) = N - 1
      /\ \A k \in 1 .. N - 1 : nest2[k] = nest[k]
  BY FrontGives
<1>3. /\ pos \in [1 .. N -> Nat]
      /\ N # 0 => pos[1] = 1
      /\ \A k \in 1 .. N - 1 : pos[k + 1] = pos[k] + Above(nest[k])
      /\ \A j, k \in 1 .. N : j < k => pos[j] < pos[k]
      /\ \A k \in 1 .. N : pos[k] \in 1 .. Len(st) /\ st[pos[k]] = Node(nest[k].type, <<>>)
  BY DEF Places
<1> HIDE DEF nest2, N
<1>4. /\ pos2 \in [1 .. N - 1 -> Nat]
      /\ \A k \in 1 .. N - 1 : pos2[k] = pos[k]
  BY <1>1, <1>3
<1> HIDE DEF pos2
<1>5. Len(st2) = pos[N] /\ pos[N] \in Nat \ {0}
  BY <1>1, <1>3 DEF N
<1>6. N - 1 # 0 => pos2[1] = 1
  BY <1>1, <1>3, <1>4
<1>7. \A k \in 1 .. (N - 1) - 1 : pos2[k + 1] = pos2[k] + Above(nest2[k])
  BY <1>1, <1>2, <1>3, <1>4
<1>8. ASSUME NEW j \in 1 .. N - 1, NEW k \in 1 .. N - 1, j < k
      PROVE  pos2[j] < pos2[k]
  <2>1. j \in 1 .. N /\ k \in 1 .. N
    BY <1>1
  <2> QED
    BY <1>3, <1>4, <1>8, <2>1
<1>9. ASSUME NEW k \in 1 .. N - 1
      PROVE  pos2[k] \in 1 .. Len(st2) /\ st2[pos2[k]] = Node(nest2[k].type, <<>>)
  <2>1. k \in 1 .. N /\ N \in 1 .. N /\ k < N
    BY <1>1
  <2>2. pos[k] < pos[N] /\ pos[k] \in Nat \ {0} /\ st[pos[k]] = Node(nest[k].type, <<>>)
    BY <1>3, <2>1
  <2>3. pos[k] \in 1 .. Len(st2) - 1
    BY <1>5, <2>2
  <2> QED
    BY <1>2, <1>4, <1>5, <2>2, <2>3
<1>10. Len(st2) = IF N - 1 = 0 THEN 1 ELSE pos2[N - 1] + Above(nest2[N - 1])
  <2>1. CASE N = 1
    BY <1>3, <1>5, <2>1
  <2>2. CASE N # 1
    <3>1. N - 1 \in 1 .. N - 1 /\ (N - 1) + 1 = N /\ N - 1 # 0
      BY <1>1, <2>2
    <3> QED
      BY <1>2, <1>3, <1>4, <1>5, <3>1
  <2> QED
    BY <2>1, <2>2
<1>11. Places(pos2, nest2, TRUE, st2)
  BY <1>2, <1>4, <1>6, <1>7, <1>8, <1>9, <1>10 DEF Places
<1> QED
  BY <1>2, <1>11 DEF nest2

\* What an end takes off are the values since the start (document.h:2466-2477).
LEMMA EndKeeps ==
  ASSUME DocInv, PoolInv, NestInv, End
  PROVE  DocInv' /\ PoolInv' /\ NestInv'
<1> DEFINE N == Len(nesting)
           n == Popped(Inside.type, Inside.count)
           rest == SubSeq(stack_, 1, Len(stack_) - n)
           items == SubSeq(stack_, Len(rest) + 1, Len(stack_))
           st2 == [rest EXCEPT ![Len(rest)].items = items]
<1>1. /\ building # 0 /\ nesting # <<>> /\ ~Inside.named
      /\ given' = Append(given, "end") /\ nesting' = Front(nesting)
  BY DEF End
<1>2. WithStack(st2)
  BY DEF End
<1>3. /\ building \in Documents /\ IsVector(stack_)
      /\ nesting \in Seq(Level) /\ given \in Seq(Event)
  BY <1>1 DEF NestInv
<1>4. PICK pos : Places(pos, nesting, given # <<>>, stack_)
  BY <1>1 DEF NestInv
<1>5. N \in Nat \ {0} /\ N \in 1 .. N /\ Inside \in Level /\ n = Above(Inside) /\ n \in Nat
  <2>1. N \in Nat \ {0} /\ N \in 1 .. N
    BY <1>1, <1>3, EmptySeq
  <2>2. Inside \in Level
    BY <1>3, <2>1, ElementOfSeq DEF Inside, Last
  <2> QED
    BY <1>1, <2>1, <2>2, AboveType
<1>6. /\ Len(stack_) \in Nat /\ pos[N] \in 1 .. Len(stack_)
      /\ Len(stack_) = pos[N] + n
  <2>1. Len(stack_) \in Nat
    BY <1>3, PushedVector
  <2>2. pos[N] \in 1 .. Len(stack_) /\ Len(stack_) = pos[N] + Above(nesting[N])
    BY <1>4, <1>5 DEF Places
  <2>3. nesting[N] = Inside
    BY DEF Inside, Last
  <2> HIDE DEF N, n
  <2> QED
    BY <1>5, <2>1, <2>2, <2>3
<1>7. PICK S : stack_ \in Seq(S)
  BY <1>3 DEF IsVector
<1> HIDE DEF n, N
<1>8. /\ rest \in Seq(S) /\ Len(rest) = pos[N]
      /\ \A i \in 1 .. pos[N] : rest[i] = stack_[i]
  <2>1. Len(stack_) - n = pos[N] /\ pos[N] \in Nat \ {0}
    BY <1>5, <1>6
  <2>2. \A i \in 1 .. pos[N] : stack_[i] \in S
    BY <1>6, <1>7, <2>1, ElementOfSeq
  <2> QED
    BY <2>1, <2>2, SubSeqProperties
<1> HIDE DEF rest, items
<1> DEFINE y == [rest[Len(rest)] EXCEPT !.items = items]
<1>9. st2 = [rest EXCEPT ![Len(rest)] = y]
  OBVIOUS
<1> HIDE DEF y
<1>10. /\ st2 \in Seq(S \cup {y}) /\ Len(st2) = pos[N]
       /\ \A i \in 1 .. Len(st2) - 1 : st2[i] = stack_[i]
  <2>1. rest \in Seq(S \cup {y})
    BY <1>8, SeqMonotonic
  <2>2. Len(rest) \in 1 .. Len(rest)
    BY <1>6, <1>8
  <2>3. /\ st2 \in Seq(S \cup {y}) /\ Len(st2) = Len(rest)
        /\ \A i \in 1 .. Len(rest) : st2[i] = IF i = Len(rest) THEN y ELSE rest[i]
    BY <1>9, <2>1, <2>2, ExceptSeq
  <2> HIDE DEF st2
  <2> QED
    BY <1>6, <1>8, <2>2, <2>3
<1> HIDE DEF st2
<1>11. /\ DocInv' /\ PoolInv'
       /\ doc'[building].stack = st2
       /\ \A d \in Documents : d # building => doc'[d] = doc[d]
       /\ building' = building
  BY <1>2, <1>3, StackKeeps DEF WithStack
<1>12. stack_' = st2
  BY <1>11 DEF stack_
<1>13. given' \in Seq(Event) /\ given' # <<>>
  <2>1. "end" \in Event
    BY DEF Event
  <2> QED
    BY <1>1, <1>3, <2>1, AppendProperties
<1>14. nesting' \in Seq(Level) /\ \E pos2 : Places(pos2, nesting', given' # <<>>, stack_')
  BY <1>1, <1>3, <1>4, <1>10, <1>12, <1>13, PlacesAfterEnd DEF N
<1>15. IsVector(stack_')
  BY <1>10, <1>12 DEF IsVector
<1>16. \A k \in 1 .. Len(nesting') : nesting'[k].type = "array" => ~ nesting'[k].named
  <2>1. Len(nesting') = N - 1 /\ \A k \in 1 .. N - 1 : nesting'[k] = nesting[k]
    BY <1>1, <1>3, FrontGives DEF N
  <2>2. \A k \in 1 .. N : nesting[k].type = "array" => ~ nesting[k].named
    BY DEF NestInv, N
  <2> QED
    BY <1>5, <2>1, <2>2
<1>17. \A d \in Documents : building' = 0 \/ d # building' => doc'[d].stack = <<>>
  BY <1>1, <1>11 DEF NestInv
<1> QED
  BY <1>3, <1>11, <1>13, <1>14, <1>15, <1>16, <1>17 DEF NestInv

\* Nothing is open when a text is begun.
LEMMA BeginKeeps ==
  ASSUME DocInv, PoolInv, NestInv, Begin
  PROVE  DocInv' /\ PoolInv' /\ NestInv'
<1>1. PICK d \in Documents : building = 0 /\ building' = d
  BY DEF Begin
<1>2. nesting' = <<>> /\ given' = <<>> /\ doc' = doc /\ alive' = alive
  BY DEF Begin
<1>3. DocInv' /\ PoolInv'
  BY <1>2 DEF DocInv, PoolInv, PoolsAreDeleted
<1>4. \A e \in Documents : doc'[e].stack = <<>>
  BY <1>1, <1>2 DEF NestInv
<1>5. nesting' \in Seq(Level) /\ Len(nesting') = 0 /\ given' \in Seq(Event)
  BY <1>2, EmptySeq
<1>6. stack_' = <<>>
  BY <1>1, <1>4 DEF stack_
<1>7. IsVector(stack_') /\ Len(stack_') = 0
  BY <1>6, EmptySeq DEF IsVector
<1> DEFINE pos == [k \in 1 .. 0 |-> 0]
<1>8. pos \in [1 .. 0 -> Nat]
  OBVIOUS
<1> HIDE DEF pos
<1>9. Places(pos, nesting', given' # <<>>, stack_')
  BY <1>2, <1>5, <1>7, <1>8 DEF Places
<1> QED
  BY <1>1, <1>2, <1>3, <1>4, <1>5, <1>7, <1>9 DEF NestInv

\* After a text the stack is empty, whether it was right or wrong (document.h:2485-2492).
LEMMA LeaveNests ==
  ASSUME DocInv, NestInv, building # 0, Done,
         building \in Documents => doc'[building].stack = <<>>,
         \A d \in Documents : d # building => doc'[d] = doc[d]
  PROVE  NestInv'
<1>1. building' = 0 /\ nesting' = <<>> /\ given' = <<>>
  BY DEF Done
<1>2. \A d \in Documents : doc'[d].stack = <<>>
  BY DEF NestInv
<1>3. nesting' \in Seq(Level) /\ Len(nesting') = 0 /\ given' \in Seq(Event)
  BY <1>1, EmptySeq
<1> QED
  BY <1>1, <1>2, <1>3 DEF NestInv

\* A text that ends well leaves its value, and the stack is cleared.
LEMMA FinishKeeps ==
  ASSUME DocInv, PoolInv, NestInv, Finish
  PROVE  DocInv' /\ PoolInv' /\ NestInv'
<1> DEFINE root == Last(stack_)
           pool == IF InMemory(root) THEN doc[building].allocator ELSE 0
<1>1. building # 0 /\ Leave(building, root, pool, FALSE) /\ Done
  BY DEF Finish
<1>2. InMemory(root) => pool = doc[building].allocator
  OBVIOUS
<1> HIDE DEF root, pool
<1>3. /\ DocInv' /\ PoolInv'
      /\ building \in Documents => doc'[building].stack = <<>>
      /\ \A d \in Documents : d # building => doc'[d] = doc[d]
  BY <1>1, <1>2, LeaveKeeps
<1> QED
  BY <1>1, <1>3, LeaveNests

\* One that does not leaves the stack cleared as well.
LEMMA FailKeeps ==
  ASSUME DocInv, PoolInv, NestInv, Fail
  PROVE  DocInv' /\ PoolInv' /\ NestInv'
<1>1. building # 0 /\ Leave(building, doc[building].value, doc[building].pool, TRUE) /\ Done
  BY DEF Fail
<1>2. building \in Documents /\ InMemory(doc[building].value) =>
        doc[building].pool = doc[building].allocator
  BY DEF PoolInv
<1>3. /\ DocInv' /\ PoolInv'
      /\ building \in Documents => doc'[building].stack = <<>>
      /\ \A d \in Documents : d # building => doc'[d] = doc[d]
  BY <1>1, <1>2, LeaveKeeps
<1> QED
  BY <1>1, <1>3, LeaveNests

\* Between texts all stacks are empty, and moving and swapping leave them so.
LEMMA IdleNests ==
  ASSUME DocInv, NestInv, Idle,
         \A d \in Documents : doc'[d].stack = <<>> \/ \E e \in Documents : doc'[d].stack = doc[e].stack
  PROVE  NestInv'
<1>1. building = 0 /\ building' = 0 /\ nesting' = nesting /\ given' = given
  BY DEF Idle
<1>2. \A d \in Documents : doc[d].stack = <<>>
  BY <1>1 DEF NestInv
<1>3. \A d \in Documents : doc'[d].stack = <<>>
  BY <1>2
<1> QED
  BY <1>1, <1>3 DEF NestInv

\* While documents are made, moved and deleted nothing is open.
LEMMA DocumentsNest ==
  ASSUME DocInv, NestInv, Construct \/ DeleteDocument \/ MoveConstruct \/ MoveAssign \/ SwapDocuments
  PROVE  NestInv'
<1>1. Idle
  BY DEF Construct, DeleteDocument, MoveConstruct, MoveAssign, SwapDocuments
<1>2. CASE Construct
  <2>1. PICK d \in Documents : \E allocator, own :
          doc' = [doc EXCEPT ![d] = Document(allocator, own)]
    BY <1>2 DEF Construct
  <2>2. \A allocator, own : Document(allocator, own).stack = <<>>
    BY DEF Document
  <2>3. \A c \in Documents : doc'[c].stack = <<>> \/ doc'[c].stack = doc[c].stack
    BY <2>1, <2>2 DEF DocInv
  <2> QED
    BY <1>1, <2>3, IdleNests
<1>3. CASE DeleteDocument
  <2>1. PICK d \in Documents : doc' = [doc EXCEPT ![d] = NoDocument]
    BY <1>3 DEF DeleteDocument
  <2>2. \A c \in Documents : doc'[c].stack = <<>> \/ doc'[c].stack = doc[c].stack
    BY <2>1, NoneGives DEF DocInv
  <2> QED
    BY <1>1, <2>2, IdleNests
<1>4. CASE MoveConstruct \/ MoveAssign
  <2>1. PICK d \in Documents, e \in Documents :
          doc' = [doc EXCEPT ![d] = doc[e], ![e] = Left(e)]
    BY <1>4 DEF MoveConstruct, MoveAssign
  <2>2. Left(e).stack = doc[e].stack
    BY LeftGives
  <2>3. \A c \in Documents : doc'[c].stack = doc[c].stack \/ doc'[c].stack = doc[e].stack
    BY <2>1, <2>2 DEF DocInv
  <2> QED
    BY <1>1, <2>3, IdleNests
<1>5. CASE SwapDocuments
  <2>1. PICK d \in Documents, e \in Documents : doc' = [doc EXCEPT ![d] = doc[e], ![e] = doc[d]]
    BY <1>5 DEF SwapDocuments
  <2>2. \A c \in Documents : \/ doc'[c].stack = doc[c].stack
                             \/ doc'[c].stack = doc[d].stack
                             \/ doc'[c].stack = doc[e].stack
    BY <2>1 DEF DocInv
  <2> QED
    BY <1>1, <2>2, IdleNests
<1> QED
  BY <1>2, <1>3, <1>4, <1>5

-----------------------------------------------------------------------------
(* The theorems.                                                           *)

DocumentInv == DocInv /\ PoolInv /\ NestInv

\* There are no documents, and only the pool of the user.
LEMMA InitDocuments == DocumentInit => DocumentInv
<1> SUFFICES ASSUME DocumentInit PROVE DocumentInv
  OBVIOUS
<1>1. /\ doc = [d \in Documents |-> NoDocument] /\ alive = {User}
      /\ building = 0 /\ nesting = <<>> /\ given = <<>>
  BY DEF DocumentInit
<1>2. \A d \in Documents : doc[d] = NoDocument
  BY <1>1
<1>3. DocInv
  BY <1>1, <1>2, NoneGives DEF DocInv
<1>4. PoolInv
  BY <1>1, <1>2, NoneGives, NullNeedsNoMemory DEF PoolInv, PoolsAreDeleted, User
<1>5. NestInv
  BY <1>1, <1>2, NoneGives, EmptySeq DEF NestInv
<1> QED
  BY <1>3, <1>4, <1>5 DEF DocumentInv

\* One lemma for each action.
LEMMA NextDocuments == DocumentInv /\ [DocumentNext]_documentVars => DocumentInv'
<1> SUFFICES ASSUME DocInv, PoolInv, NestInv, [DocumentNext]_documentVars
             PROVE  DocInv' /\ PoolInv' /\ NestInv'
  BY DEF DocumentInv
<1>1. CASE Construct
  BY <1>1, ConstructKeeps, DocumentsNest
<1>2. CASE DeleteDocument
  BY <1>2, DocumentDeleteKeeps, DocumentsNest
<1>3. CASE MoveConstruct
  BY <1>3, MoveConstructKeeps, DocumentsNest
<1>4. CASE MoveAssign
  BY <1>4, MoveAssignKeeps, DocumentsNest
<1>5. CASE SwapDocuments
  BY <1>5, DocumentSwapKeeps, DocumentsNest
<1>6. CASE Begin
  BY <1>6, BeginKeeps
<1>7. CASE Value
  BY <1>7, ValueKeeps
<1>8. CASE Key
  BY <1>8, KeyKeeps
<1>9. CASE Start
  BY <1>9, StartKeeps
<1>10. CASE End
  BY <1>10, EndKeeps
<1>11. CASE Finish
  BY <1>11, FinishKeeps
<1>12. CASE Fail
  BY <1>12, FailKeeps
<1>13. CASE UNCHANGED documentVars
  BY <1>13 DEF documentVars, DocInv, PoolInv, PoolsAreDeleted, NestInv, stack_
<1> QED
  BY <1>1, <1>2, <1>3, <1>4, <1>5, <1>6, <1>7, <1>8, <1>9, <1>10, <1>11, <1>12, <1>13 DEF DocumentNext

\* The invariant holds in every state.
LEMMA DocumentInvHolds == DocumentSpec => []DocumentInv
BY InitDocuments, NextDocuments, PTL DEF DocumentSpec

\* However documents were constructed, moved, swapped, filled and deleted, the memory of each is
\* in a pool that exists, that the document points to and that no other document deletes; and
\* each pool that a document made is still some document's to delete
\* (document.h:2137-2213, 2494-2496).
THEOREM PoolsOutlive == DocumentSpec => []PoolsOutliveValues
<1>1. DocumentInv => PoolsOutliveValues
  <2> SUFFICES ASSUME PoolInv, NEW d \in Documents, doc[d].exists
               PROVE  /\ InMemory(doc[d].value) => doc[d].pool = doc[d].allocator
                      /\ doc[d].allocator # 0 => doc[d].allocator \in alive
                      /\ doc[d].own # 0 => \A e \in Documents \ {d} : doc[e].own # doc[d].own
    BY DEF DocumentInv, PoolInv, PoolsOutliveValues, MemoryIsInPools
  <2> QED
    BY DEF PoolInv
<1> QED
  BY <1>1, DocumentInvHolds, PTL

\* Whatever events the reader gives, an end finds the container that its start has put on the
\* stack below what it takes off, and the root is alone when the text is at its end, as
\* ParseStream asserts (document.h:2264, 2466-2477).
THEOREM StackHolds == DocumentSpec => []StackHoldsWhatIsOpen
<1>1. DocumentInv => StackHoldsWhatIsOpen
  <2> SUFFICES ASSUME NestInv, building # 0
               PROVE  IF nesting = <<>> THEN Len(stack_) = IF given = <<>> THEN 0 ELSE 1
                      ELSE LET above == Popped(Inside.type, Inside.count)
                                          + (IF Inside.named THEN 1 ELSE 0)
                           IN  /\ above < Len(stack_)
                               /\ stack_[Len(stack_) - above] = Node(Inside.type, <<>>)
    BY DEF DocumentInv, StackHoldsWhatIsOpen
  <2>1. PICK pos : Places(pos, nesting, given # <<>>, stack_)
    BY DEF NestInv
  <2> DEFINE N == Len(nesting)
             L == Len(stack_)
             above == Above(Inside)
  <2>2. CASE nesting = <<>>
    <3>1. N = 0
      BY <2>2, EmptySeq
    <3>2. L = IF given = <<>> THEN 0 ELSE 1
      BY <2>1, <3>1 DEF Places
    <3> QED
      BY <2>2, <3>2
  <2>3. CASE nesting # <<>>
    <3>1. N \in Nat \ {0} /\ N \in 1 .. N /\ nesting[N] = Inside /\ Inside \in Level
      BY <2>3, EmptySeq, ElementOfSeq DEF NestInv, Inside, Last
    <3>2. above \in Nat /\ L \in Nat
      BY <3>1, AboveType, PushedVector DEF NestInv
    <3>3. /\ pos[N] \in 1 .. L /\ stack_[pos[N]] = Node(Inside.type, <<>>)
          /\ L = pos[N] + above
      BY <2>1, <3>1 DEF Places
    <3> HIDE DEF N, L, above
    <3>4. above < L /\ L - above = pos[N]
      BY <3>2, <3>3
    <3>5. above < L /\ stack_[L - above] = Node(Inside.type, <<>>)
      BY <3>3, <3>4
    <3> QED
      BY <2>3, <3>5 DEF above, L, Above
  <2> QED
    BY <2>2, <2>3
<1> QED
  BY <1>1, DocumentInvHolds, PTL

-----------------------------------------------------------------------------
(* Pointers.                                                               *)

PointerType ==
  [allocator : Nat, own : Nat, buffer : Nat, tokens : Nat, names : Seq(Nat), copied : BOOLEAN]

\* An allocator that only a copy has was made by another pointer.
KnownAllocator(p) == p.copied \/ p.allocator \in {None, Users, p.own}

\* A pointer that can be freed and copied: a block is freed by the address of the tokens, which
\* it begins with; all names are in it, or all are the program's; and an allocator of its own
\* is the one it uses.
Sound(p) ==
  /\ p \in PointerType
  /\ p.own \in {None, p.allocator}
  /\ KnownAllocator(p)
  /\ p.buffer # None => p.tokens = p.buffer
  /\ \A i \in DOMAIN p.names : p.names[i] = IF p.buffer = None THEN Users ELSE p.buffer

HeapType == [blocks : SUBSET Nat, allocators : SUBSET Nat]
Finite(h) == h \in HeapType /\ IsFiniteSet(h.blocks) /\ IsFiniteSet(h.allocators)

MemoryInv ==
  /\ IsFiniteSet(DOMAIN pointers)
  /\ \A s \in DOMAIN pointers : Sound(pointers[s])
  /\ Finite(heap)
  /\ OwnedOnce

-----------------------------------------------------------------------------
(* Ownership.                                                              *)

\* The elements of set are what f gives the members of D, each to one of them.
Owned(set, D, f) ==
  /\ set = {f[s] : s \in D} \ {None}
  /\ \A s, t \in D : s # t => f[s] = None \/ f[s] # f[t]

\* What was old is given back, and new is taken, which nobody had.
Replaces(set, old, new, after) ==
  /\ after = (set \ {old}) \cup ({new} \ {None})
  /\ new = None \/ new = old \/ new \notin set

\* Ownership stays unique when one owner gives back what it had and takes what nobody has.
LEMMA OwnedAfterReplace ==
  ASSUME NEW set, NEW D, NEW f, Owned(set, D, f), NEW slot,
         NEW old, slot \in D => old = f[slot], slot \notin D => old = None,
         NEW new, NEW after, Replaces(set, old, new, after),
         NEW g, \A s \in D \cup {slot} : g[s] = IF s = slot THEN new ELSE f[s]
  PROVE  Owned(after, D \cup {slot}, g)
<1>1. after = (set \ {old}) \cup ({new} \ {None}) /\ (new = None \/ new = old \/ new \notin set)
  BY DEF Replaces
<1>2. ASSUME NEW s \in D, s # slot, f[s] # None
      PROVE  f[s] \in set /\ f[s] # old /\ f[s] # new
  BY <1>1, <1>2 DEF Owned
<1>3. \A x \in after : \E s \in D \cup {slot} : x = g[s] /\ x # None
  <2> SUFFICES ASSUME NEW x \in after
               PROVE  \E s \in D \cup {slot} : x = g[s] /\ x # None
    OBVIOUS
  <2>1. CASE x = new /\ new # None
    BY <2>1
  <2>2. CASE x \in set /\ x # old
    <3>1. PICK s \in D : x = f[s] /\ x # None
      BY <2>2 DEF Owned
    <3>2. s # slot
      BY <2>2, <3>1
    <3> QED
      BY <3>1, <3>2
  <2> QED
    BY <1>1, <2>1, <2>2
<1>4. \A s \in D \cup {slot} : g[s] # None => g[s] \in after
  BY <1>1, <1>2
<1>5. \A s, t \in D \cup {slot} : s # t => g[s] = None \/ g[s] # g[t]
  <2> SUFFICES ASSUME NEW s \in D \cup {slot}, NEW t \in D \cup {slot}, s # t, g[s] # None
               PROVE  g[s] # g[t]
    OBVIOUS
  <2>1. CASE s = slot
    BY <1>2, <2>1
  <2>2. CASE t = slot
    BY <1>2, <2>2
  <2>3. CASE s # slot /\ t # slot
    BY <2>3 DEF Owned
  <2> QED
    BY <2>1, <2>2, <2>3
<1>6. after = {g[s] : s \in D \cup {slot}} \ {None}
  BY <1>3, <1>4
<1> QED
  BY <1>5, <1>6 DEF Owned

\* And when an owner goes.
LEMMA OwnedAfterDelete ==
  ASSUME NEW set, NEW D, NEW f, Owned(set, D, f), NEW slot \in D,
         NEW g, \A s \in D \ {slot} : g[s] = f[s]
  PROVE  Owned(set \ {f[slot]}, D \ {slot}, g)
<1>1. \A s \in D \ {slot} : f[s] # None => f[s] \in set /\ f[s] # f[slot]
  BY DEF Owned
<1>2. \A x \in set \ {f[slot]} : \E s \in D \ {slot} : x = f[s] /\ x # None
  BY DEF Owned
<1> QED
  BY <1>1, <1>2 DEF Owned

\* And when two owners exchange what they have.
LEMMA OwnedAfterSwap ==
  ASSUME NEW set, NEW D, NEW f, Owned(set, D, f), NEW a \in D, NEW b \in D, a # b,
         NEW g, \A s \in D : g[s] = IF s = b THEN f[a] ELSE IF s = a THEN f[b] ELSE f[s]
  PROVE  Owned(set, D, g)
<1> DEFINE other(s) == IF s = b THEN a ELSE IF s = a THEN b ELSE s
<1>1. \A s \in D : other(s) \in D /\ g[s] = f[other(s)] /\ other(other(s)) = s
  OBVIOUS
<1>2. \A s, t \in D : s # t => other(s) # other(t)
  OBVIOUS
<1> HIDE DEF other
<1>3. {g[s] : s \in D} = {f[s] : s \in D}
  BY <1>1
<1>4. \A s, t \in D : s # t => g[s] = None \/ g[s] # g[t]
  BY <1>1, <1>2 DEF Owned
<1> QED
  BY <1>3, <1>4 DEF Owned

Buffers == [s \in DOMAIN pointers |-> pointers[s].buffer]
Owns    == [s \in DOMAIN pointers |-> pointers[s].own]

\* OwnedOnce says it of the blocks and of the allocators.
LEMMA OwnedOnceParts ==
  OwnedOnce <=> /\ Owned(heap.blocks, DOMAIN pointers, Buffers)
                /\ Owned(heap.allocators, DOMAIN pointers, Owns)
<1>1. {Buffers[s] : s \in DOMAIN pointers} = {pointers[s].buffer : s \in DOMAIN pointers}
  BY DEF Buffers
<1>2. {Owns[s] : s \in DOMAIN pointers} = {pointers[s].own : s \in DOMAIN pointers}
  BY DEF Owns
<1>3. \A s \in DOMAIN pointers : Buffers[s] = pointers[s].buffer /\ Owns[s] = pointers[s].own
  BY DEF Buffers, Owns
<1> QED
  BY <1>1, <1>2, <1>3 DEF OwnedOnce, Owned

-----------------------------------------------------------------------------
(* Allocation.                                                             *)

LEMMA UsedFinite ==
  ASSUME NEW h, Finite(h), NEW p, IsFiniteSet(DOMAIN pointers)
  PROVE  IsFiniteSet(Used(h, p))
<1> DEFINE kept == {pointers[s] : s \in DOMAIN pointers}
           parts(q) == {q.allocator, q.own, q.buffer, q.tokens}
           held == {p} \cup kept
           f == [s \in DOMAIN pointers |-> pointers[s]]
<1>1. f \in Surjection(DOMAIN pointers, kept)
  BY DEF Surjection
<1>2. IsFiniteSet(kept)
  BY <1>1, FS_Surjection, Zenon
<1>3. IsFiniteSet(held)
  <2> HIDE DEF kept
  <2>1. held = kept \cup {p}
    OBVIOUS
  <2> QED
    BY <1>2, <2>1, FS_AddElement
<1>4. \A q : IsFiniteSet(parts(q))
  <2> TAKE q
  <2>1. IsFiniteSet({q.allocator})
    BY FS_Singleton
  <2>2. IsFiniteSet({q.allocator} \cup {q.own})
    BY <2>1, FS_AddElement
  <2>3. IsFiniteSet({q.allocator} \cup {q.own} \cup {q.buffer})
    BY <2>2, FS_AddElement
  <2>4. IsFiniteSet({q.allocator} \cup {q.own} \cup {q.buffer} \cup {q.tokens})
    BY <2>3, FS_AddElement
  <2>5. parts(q) = {q.allocator} \cup {q.own} \cup {q.buffer} \cup {q.tokens}
    OBVIOUS
  <2> QED
    BY <2>4, <2>5
<1> DEFINE all == {parts(q) : q \in held}
           g == [q \in held |-> parts(q)]
<1>5. IsFiniteSet(all)
  <2>1. g \in Surjection(held, all)
    BY DEF Surjection
  <2> HIDE DEF all, g, held
  <2> QED
    BY <1>3, <2>1, FS_Surjection, Zenon
<1>6. \A T \in all : IsFiniteSet(T)
  BY <1>4
<1>7. Used(h, p) = (h.blocks \cup h.allocators) \cup UNION all
  BY DEF Used
<1> HIDE DEF all
<1>8. IsFiniteSet(UNION all)
  BY <1>5, <1>6, FS_UNION
<1>9. IsFiniteSet(h.blocks \cup h.allocators)
  BY FS_Union DEF Finite
<1> QED
  BY <1>7, <1>8, <1>9, FS_Union

\* What is allocated is a number of its own, that nothing refers to.
LEMMA UnusedIsFree ==
  ASSUME NEW h, Finite(h), NEW p, IsFiniteSet(DOMAIN pointers)
  PROVE  /\ Unused(h, p) \in Nat /\ Unused(h, p) \notin {None, Users, Nowhere}
         /\ Unused(h, p) \notin h.blocks \cup h.allocators
         /\ Unused(h, p) \notin {p.buffer, p.own}
<1> DEFINE n == Cardinality(Used(h, p))
<1>1. IsFiniteSet(Used(h, p)) /\ n \in Nat
  BY UsedFinite, FS_CardinalityType
<1> HIDE DEF n
<1>2. IsFiniteSet(3 .. 3 + n) /\ Cardinality(3 .. 3 + n) = n + 1
  BY <1>1, FS_Interval
<1>3. ~ (3 .. 3 + n \subseteq Used(h, p))
  <2> SUFFICES ASSUME 3 .. 3 + n \subseteq Used(h, p) PROVE FALSE
    OBVIOUS
  <2>1. Cardinality(3 .. 3 + n) <= Cardinality(Used(h, p))
    BY <1>1, FS_Subset
  <2> QED
    BY <1>1, <1>2, <2>1 DEF n
<1>4. Unused(h, p) \in 3 .. 3 + n /\ Unused(h, p) \notin Used(h, p)
  BY <1>3 DEF Unused, n
<1>5. h.blocks \cup h.allocators \cup {p.buffer, p.own} \subseteq Used(h, p)
  BY DEF Used
<1> QED
  BY <1>1, <1>4, <1>5 DEF None, Users, Nowhere

\* What a pointer has after it was given an allocator, if it had none, and a block, if it
\* needs one.
Provided(h, p, empty, m) ==
  /\ Finite(m.heap)
  /\ m.pointer \in PointerType
  /\ m.pointer.names = p.names
  /\ m.pointer.own \in {None, m.pointer.allocator}
  /\ KnownAllocator(m.pointer)
  /\ Replaces(h.allocators, p.own, m.pointer.own, m.heap.allocators)
  /\ m.pointer.tokens = m.pointer.buffer
  /\ m.pointer.buffer \notin (h.blocks \cup {p.buffer}) \ {None}
  /\ m.pointer.buffer = None <=> empty
  /\ m.heap.blocks = h.blocks \cup ({m.pointer.buffer} \ {None})

\* An allocator that is made is given to a pointer that had none, so that none is lost
\* (pointer.h:820-821).
LEMMA EquippedGives ==
  ASSUME NEW h, Finite(h), NEW p, Sound(p), IsFiniteSet(DOMAIN pointers),
         p.own \in h.allocators \cup {None}, None \notin h.allocators
  PROVE  LET m == Equipped(h, p)
         IN  /\ Finite(m.heap)
             /\ m.pointer = [p EXCEPT !.allocator = m.pointer.allocator,
                                      !.own = m.pointer.own]
             /\ m.pointer \in PointerType
             /\ m.pointer.own \in {None, m.pointer.allocator}
             /\ KnownAllocator(m.pointer)
             /\ Replaces(h.allocators, p.own, m.pointer.own, m.heap.allocators)
             /\ m.heap.blocks = h.blocks
<1> DEFINE a == Unused(h, p)
<1>1. a \in Nat /\ a # None /\ a \notin h.allocators
  BY UnusedIsFree
<1>2. /\ p \in PointerType /\ p.own \in {None, p.allocator} /\ KnownAllocator(p)
      /\ h \in HeapType
  BY DEF Sound, Finite
<1> DEFINE m == Equipped(h, p)
<1>3. CASE p.allocator # None
  <2>1. m.heap = h /\ m.pointer = p
    BY <1>3 DEF Equipped, Made
  <2>2. Replaces(h.allocators, p.own, p.own, h.allocators)
    BY DEF Replaces
  <2>3. p = [p EXCEPT !.allocator = p.allocator, !.own = p.own]
    BY <1>2 DEF PointerType
  <2> QED
    BY <1>2, <2>1, <2>2, <2>3
<1>4. CASE p.allocator = None
  <2>1. /\ m.heap = [h EXCEPT !.allocators = @ \cup {a}]
        /\ m.pointer = [p EXCEPT !.allocator = a, !.own = a]
    BY <1>4 DEF Equipped, Made
  <2> HIDE DEF m, a
  <2>2. m.pointer \in PointerType /\ m.pointer.own = a /\ m.pointer.allocator = a
    BY <1>1, <1>2, <2>1 DEF PointerType
  <2>3. /\ m.heap \in HeapType /\ m.heap.blocks = h.blocks
        /\ m.heap.allocators = h.allocators \cup {a}
    BY <1>1, <1>2, <2>1 DEF HeapType
  <2>4. IsFiniteSet(h.allocators \cup {a})
    BY FS_AddElement DEF Finite
  <2>5. Finite(m.heap)
    BY <2>3, <2>4 DEF Finite
  <2>6. p.own = None
    BY <1>2, <1>4
  <2>7. Replaces(h.allocators, p.own, a, m.heap.allocators)
    BY <1>1, <2>3, <2>6 DEF Replaces
  <2>8. KnownAllocator(m.pointer)
    BY <2>2 DEF KnownAllocator
  <2> QED
    BY <2>1, <2>2, <2>3, <2>5, <2>7, <2>8 DEF m
<1> QED
  BY <1>3, <1>4

\* The same with a block for tokens and names (pointer.h:827-828, 867-878).
LEMMA FilledGives ==
  ASSUME NEW h, Finite(h), NEW p, Sound(p), IsFiniteSet(DOMAIN pointers),
         p.own \in h.allocators \cup {None}, None \notin h.allocators,
         None \notin h.blocks, NEW empty \in BOOLEAN
  PROVE  Provided(h, p, empty, Filled(h, p, empty))
<1> DEFINE e == Equipped(h, p)
           b == Unused(e.heap, e.pointer)
           m == Filled(h, p, empty)
<1> SUFFICES Provided(h, p, empty, m)
  OBVIOUS
<1>1. /\ Finite(e.heap)
      /\ e.pointer = [p EXCEPT !.allocator = e.pointer.allocator, !.own = e.pointer.own]
      /\ e.pointer \in PointerType
      /\ e.pointer.own \in {None, e.pointer.allocator}
      /\ KnownAllocator(e.pointer)
      /\ Replaces(h.allocators, p.own, e.pointer.own, e.heap.allocators)
      /\ e.heap.blocks = h.blocks
  BY EquippedGives
<1>2. m = IF empty
          THEN Made(e.heap, [e.pointer EXCEPT !.buffer = None, !.tokens = None])
          ELSE Made([e.heap EXCEPT !.blocks = @ \cup {b}],
                    [e.pointer EXCEPT !.buffer = b, !.tokens = b])
  BY DEF Filled
<1> HIDE DEF e, m
<1>3. b \in Nat /\ b # None /\ b \notin e.heap.blocks /\ b # e.pointer.buffer
  BY <1>1, UnusedIsFree
<1> HIDE DEF b
<1>4. e.pointer.buffer = p.buffer /\ e.pointer.names = p.names /\ e.heap \in HeapType
  BY <1>1 DEF Sound, PointerType, Finite
<1>5. CASE empty
  <2>1. m.heap = e.heap /\ m.pointer = [e.pointer EXCEPT !.buffer = None, !.tokens = None]
    BY <1>2, <1>5 DEF Made
  <2>2. None \in Nat
    BY DEF None
  <2>3. /\ m.pointer \in PointerType /\ m.pointer.names = p.names
        /\ m.pointer.own = e.pointer.own /\ m.pointer.allocator = e.pointer.allocator
        /\ m.pointer.copied = e.pointer.copied
        /\ m.pointer.tokens = None /\ m.pointer.buffer = None
    BY <1>1, <1>4, <2>1, <2>2 DEF PointerType
  <2> QED
    BY <1>1, <1>5, <2>1, <2>3 DEF Provided, KnownAllocator
<1>6. CASE ~empty
  <2>1. /\ m.heap = [e.heap EXCEPT !.blocks = @ \cup {b}]
        /\ m.pointer = [e.pointer EXCEPT !.buffer = b, !.tokens = b]
    BY <1>2, <1>6 DEF Made
  <2>2. /\ m.pointer \in PointerType /\ m.pointer.names = p.names
        /\ m.pointer.own = e.pointer.own /\ m.pointer.allocator = e.pointer.allocator
        /\ m.pointer.copied = e.pointer.copied
        /\ m.pointer.tokens = b /\ m.pointer.buffer = b
    BY <1>1, <1>3, <1>4, <2>1 DEF PointerType
  <2>3. /\ m.heap \in HeapType /\ m.heap.blocks = h.blocks \cup {b}
        /\ m.heap.allocators = e.heap.allocators
    BY <1>1, <1>3, <1>4, <2>1 DEF HeapType
  <2>4. IsFiniteSet(h.blocks \cup {b})
    BY FS_AddElement DEF Finite
  <2>5. Finite(m.heap)
    BY <1>1, <2>3, <2>4 DEF Finite
  <2> QED
    BY <1>1, <1>3, <1>4, <1>6, <2>2, <2>3, <2>5 DEF Provided, KnownAllocator
<1> QED
  BY <1>5, <1>6

-----------------------------------------------------------------------------
(* What a call makes of one pointer.                                       *)

\* A pointer in a slot, or one that is being constructed for a free slot.
At(slot, p) ==
  /\ Sound(p)
  /\ IF slot \in DOMAIN pointers THEN p = pointers[slot] ELSE p.buffer = None /\ p.own = None

\* What p becomes owns what p owned, or what it took instead.
Follows(p, made) ==
  /\ Finite(made.heap)
  /\ Sound(made.pointer)
  /\ Replaces(heap.blocks, p.buffer, made.pointer.buffer, made.heap.blocks)
  /\ Replaces(heap.allocators, p.own, made.pointer.own, made.heap.allocators)

\* What a pointer owns is allocated, and None is not.
LEMMA OwnedIsAllocated ==
  ASSUME MemoryInv, NEW slot, NEW p, At(slot, p)
  PROVE  /\ None \notin heap.blocks /\ None \notin heap.allocators
         /\ p.buffer \in heap.blocks \cup {None}
         /\ p.own \in heap.allocators \cup {None}
BY DEF MemoryInv, OwnedOnce, At

\* Assignment frees the block by the address of the tokens (pointer.h:186-187).
LEMMA FreedGives ==
  ASSUME NEW h, Finite(h), None \notin h.blocks, NEW p, Sound(p)
  PROVE  /\ Finite(Freed(h, p))
         /\ Freed(h, p).blocks = h.blocks \ {p.buffer}
         /\ Freed(h, p).allocators = h.allocators
<1>1. CASE p.buffer = None
  BY <1>1 DEF Freed
<1>2. CASE p.buffer # None
  <2>1. Freed(h, p) = [h EXCEPT !.blocks = @ \ {p.buffer}]
    BY <1>2 DEF Freed, Sound
  <2>2. /\ Freed(h, p) \in HeapType
        /\ Freed(h, p).blocks = h.blocks \ {p.buffer}
        /\ Freed(h, p).allocators = h.allocators
    BY <2>1 DEF Finite, HeapType
  <2>3. IsFiniteSet(h.blocks \ {p.buffer})
    BY FS_RemoveElement DEF Finite
  <2> QED
    BY <2>2, <2>3 DEF Finite
<1> QED
  BY <1>1, <1>2

\* A copy has all its names in its own block, if the original had its in one, or had none
\* (pointer.h:819-843).
LEMMA CopyGives ==
  ASSUME NEW h, Finite(h), NEW p, Sound(p), IsFiniteSet(DOMAIN pointers),
         p.own \in h.allocators \cup {None}, None \notin h.allocators, None \notin h.blocks,
         NEW rhs, Sound(rhs), rhs.buffer # None \/ rhs.names = <<>>, NEW extra \in Nat
  PROVE  LET m == CopyFromRaw(h, p, rhs, extra)
         IN  /\ Finite(m.heap)
             /\ Sound(m.pointer)
             /\ Replaces(h.allocators, p.own, m.pointer.own, m.heap.allocators)
             /\ m.pointer.buffer \notin (h.blocks \cup {p.buffer}) \ {None}
             /\ m.heap.blocks = h.blocks \cup ({m.pointer.buffer} \ {None})
<1> DEFINE empty == (Len(rhs.names) + extra = 0)
           f == Filled(h, p, empty)
           b == f.pointer.buffer
           names == [i \in DOMAIN rhs.names |-> Moved(rhs.names[i], rhs.buffer, b)]
           more == [i \in 1 .. extra |-> b]
           m == CopyFromRaw(h, p, rhs, extra)
<1>1. m = [f EXCEPT !.pointer.names = names \o more]
  BY DEF CopyFromRaw
<1>2. Provided(h, p, empty, f)
  BY FilledGives
<1>3. f = [heap |-> f.heap, pointer |-> f.pointer]
  BY DEF Filled, Made
<1>4. rhs.names \in Seq(Nat) /\ DOMAIN rhs.names = 1 .. Len(rhs.names) /\ Len(rhs.names) \in Nat
  BY LenProperties DEF Sound, PointerType
<1>5. empty <=> rhs.names = <<>> /\ extra = 0
  BY <1>4
<1> HIDE DEF empty, m, f
<1>6. m = [heap |-> f.heap, pointer |-> [f.pointer EXCEPT !.names = names \o more]]
  BY <1>1, <1>3
<1>7. b \in Nat
  BY <1>2 DEF Provided, PointerType
<1> HIDE DEF b
<1>8. \A i \in DOMAIN rhs.names : names[i] = b
  BY DEF Moved, Sound
<1>9. names \in Seq(Nat) /\ more \in Seq(Nat)
  <2>1. names \in [1 .. Len(rhs.names) -> Nat]
    BY <1>4, <1>7, <1>8
  <2>2. more \in [1 .. extra -> Nat]
    BY <1>7
  <2> HIDE DEF names, more
  <2> QED
    BY <1>4, <2>1, <2>2
<1> HIDE DEF names, more
<1>10. Len(names) = Len(rhs.names) /\ Len(more) = extra
  BY <1>4 DEF names, more
<1>11. names \o more \in Seq(Nat)
  BY <1>9
<1>12. \A i \in DOMAIN (names \o more) : (names \o more)[i] = b
  <2> SUFFICES ASSUME NEW i \in 1 .. Len(names) + Len(more)
               PROVE  (names \o more)[i] = b
    BY <1>9
  <2>1. CASE i <= Len(names)
    BY <1>4, <1>8, <1>9, <1>10, <2>1
  <2>2. CASE ~ (i <= Len(names))
    <3>1. i - Len(names) \in 1 .. extra
      BY <1>4, <1>10, <2>2
    <3>2. (names \o more)[i] = more[i - Len(names)]
      BY <1>9, <2>2
    <3> QED
      BY <3>1, <3>2 DEF more
  <2> QED
    BY <2>1, <2>2
<1>13. b = None => DOMAIN (names \o more) = {}
  BY <1>2, <1>4, <1>5, <1>9, <1>10 DEF Provided, b
<1> DEFINE q == [f.pointer EXCEPT !.names = names \o more]
<1>14. /\ q \in PointerType /\ q.names = names \o more
       /\ q.own = f.pointer.own /\ q.allocator = f.pointer.allocator
       /\ q.copied = f.pointer.copied
       /\ q.tokens = f.pointer.tokens /\ q.buffer = b
  BY <1>2, <1>11 DEF Provided, PointerType, b
<1> HIDE DEF q
<1>15. Sound(q)
  BY <1>2, <1>12, <1>13, <1>14 DEF Provided, Sound, KnownAllocator, b
<1>16. m.heap = f.heap /\ m.pointer = q
  BY <1>6 DEF q
<1> QED
  BY <1>2, <1>14, <1>15, <1>16 DEF Provided, b, m

\* An assignment, and a copy, follow the pointer they are made to (pointer.h:165-201).
LEMMA AssignedFollows ==
  ASSUME MemoryInv, NEW slot, NEW p, At(slot, p), NEW from \in DOMAIN pointers
  PROVE  Follows(p, Assigned(heap, p, pointers[from]))
<1> DEFINE rhs == pointers[from]
           freed == Freed(heap, p)
           m == Assigned(heap, p, rhs)
<1> SUFFICES Follows(p, m)
  OBVIOUS
<1>1. /\ Sound(p) /\ Sound(rhs) /\ Finite(heap) /\ IsFiniteSet(DOMAIN pointers)
      /\ None \notin heap.blocks /\ None \notin heap.allocators
      /\ p.own \in heap.allocators \cup {None}
  BY OwnedIsAllocated DEF MemoryInv, At
<1>2. /\ Finite(freed) /\ freed.blocks = heap.blocks \ {p.buffer}
      /\ freed.allocators = heap.allocators
  BY <1>1, FreedGives
<1>3. m = IF rhs.buffer # None THEN CopyFromRaw(freed, p, rhs, 0)
          ELSE Made(freed, [p EXCEPT !.tokens = rhs.tokens, !.names = rhs.names,
                                     !.buffer = None])
  BY DEF Assigned
<1> HIDE DEF m, freed, rhs
<1>4. CASE rhs.buffer # None
  <2>1. /\ Finite(m.heap)
        /\ Sound(m.pointer)
        /\ Replaces(freed.allocators, p.own, m.pointer.own, m.heap.allocators)
        /\ m.pointer.buffer \notin (freed.blocks \cup {p.buffer}) \ {None}
        /\ m.heap.blocks = freed.blocks \cup ({m.pointer.buffer} \ {None})
    BY <1>1, <1>2, <1>3, <1>4, CopyGives
  <2>2. Replaces(heap.blocks, p.buffer, m.pointer.buffer, m.heap.blocks)
    BY <1>2, <2>1 DEF Replaces
  <2> QED
    BY <1>2, <2>1, <2>2 DEF Follows
<1>5. CASE rhs.buffer = None
  <2> DEFINE q == [p EXCEPT !.tokens = rhs.tokens, !.names = rhs.names, !.buffer = None]
  <2>1. m.heap = freed /\ m.pointer = q
    BY <1>3, <1>5 DEF Made
  <2>2. None \in Nat
    BY DEF None
  <2>3. /\ q \in PointerType /\ q.names = rhs.names /\ q.buffer = None
        /\ q.own = p.own /\ q.allocator = p.allocator /\ q.copied = p.copied
    BY <1>1, <2>2 DEF Sound, PointerType
  <2> HIDE DEF q
  <2>4. Sound(q)
    BY <1>1, <1>5, <2>3 DEF Sound, KnownAllocator
  <2> QED
    BY <1>1, <1>2, <2>1, <2>3, <2>4 DEF Follows, Replaces
<1> QED
  BY <1>4, <1>5

-----------------------------------------------------------------------------
(* Every call keeps the invariant.                                         *)

LEMMA PartsAfter ==
  OwnedOnce' <=> /\ Owned(heap.blocks, DOMAIN pointers, Buffers)'
                 /\ Owned(heap.allocators, DOMAIN pointers, Owns)'
BY OwnedOnceParts, PTL

\* A call that makes one pointer out of what is in its slot.
LEMMA PutKeeps ==
  ASSUME MemoryInv, NEW slot, NEW p, At(slot, p), NEW made, Follows(p, made), Put(slot, made)
  PROVE  MemoryInv'
<1> DEFINE D == DOMAIN pointers
<1>1. /\ heap' = made.heap
      /\ pointers' = [s \in D \cup {slot} |-> IF s = slot THEN made.pointer ELSE pointers[s]]
      /\ DOMAIN pointers' = D \cup {slot}
      /\ \A s \in D \cup {slot} :
           pointers'[s] = IF s = slot THEN made.pointer ELSE pointers[s]
  BY DEF Put
<1>2. IsFiniteSet(D \cup {slot})
  BY FS_AddElement DEF MemoryInv
<1>3. \A s \in D \cup {slot} : Sound(pointers'[s])
  BY <1>1 DEF MemoryInv, Follows
<1>4. Owned(heap.blocks, DOMAIN pointers, Buffers)'
  <2>1. Owned(heap.blocks, D, Buffers)
    BY OwnedOnceParts DEF MemoryInv
  <2>2. (slot \in D => p.buffer = Buffers[slot]) /\ (slot \notin D => p.buffer = None)
    BY DEF Buffers, At
  <2>3. \A s \in D \cup {slot} :
          Buffers'[s] = IF s = slot THEN made.pointer.buffer ELSE Buffers[s]
    BY <1>1 DEF Buffers
  <2>4. Replaces(heap.blocks, p.buffer, made.pointer.buffer, heap'.blocks)
    BY <1>1 DEF Follows
  <2> HIDE DEF D
  <2>5. Owned(heap'.blocks, D \cup {slot}, Buffers')
    BY <2>1, <2>2, <2>3, <2>4, OwnedAfterReplace
  <2> QED
    BY <1>1, <2>5 DEF Owned, D
<1>5. Owned(heap.allocators, DOMAIN pointers, Owns)'
  <2>1. Owned(heap.allocators, D, Owns)
    BY OwnedOnceParts DEF MemoryInv
  <2>2. (slot \in D => p.own = Owns[slot]) /\ (slot \notin D => p.own = None)
    BY DEF Owns, At
  <2>3. \A s \in D \cup {slot} :
          Owns'[s] = IF s = slot THEN made.pointer.own ELSE Owns[s]
    BY <1>1 DEF Owns
  <2>4. Replaces(heap.allocators, p.own, made.pointer.own, heap'.allocators)
    BY <1>1 DEF Follows
  <2> HIDE DEF D
  <2>5. Owned(heap'.allocators, D \cup {slot}, Owns')
    BY <2>1, <2>2, <2>3, <2>4, OwnedAfterReplace
  <2> QED
    BY <1>1, <2>5 DEF Owned, D
<1>6. Finite(heap')
  BY <1>1 DEF Follows
<1> QED
  BY <1>1, <1>2, <1>3, <1>4, <1>5, <1>6, PartsAfter DEF MemoryInv

\* No names are a sequence with no places.
LEMMA NoNames == <<>> \in Seq(Nat) /\ DOMAIN <<>> = {}
<1>1. <<>> \in Seq(Nat)
  OBVIOUS
<1>2. DOMAIN <<>> = {}
  BY EmptySeq
<1> QED
  BY <1>1, <1>2

\* A pointer that is being constructed has nothing yet, but an allocator that is none or
\* given, or that of the one it is a copy of (pointer.h:107-173).
LEMMA NewIsSound ==
  ASSUME NEW slot, Free(slot), NEW p,
         p \in Given \/ \E a \in Nat : p = [New EXCEPT !.allocator = a, !.copied = TRUE]
  PROVE  At(slot, p) /\ p.names = <<>> /\ p.own = None /\ p.buffer = None
<1>1. None \in Nat /\ Users \in Nat /\ <<>> \in Seq(Nat) /\ DOMAIN <<>> = {}
  <2>1. None \in Nat /\ Users \in Nat
    BY DEF None, Users
  <2> QED
    BY <2>1, NoNames
<1> DEFINE Record(a, c) == [allocator |-> a, own |-> None, buffer |-> None, tokens |-> None,
                            names |-> <<>>, copied |-> c]
<1>2. \E a \in Nat, c \in BOOLEAN : (c \/ a \in {None, Users}) /\ p = Record(a, c)
  <2>1. CASE p \in Given
    <3>1. PICK a \in {None, Users} : p = [New EXCEPT !.allocator = a]
      BY <2>1 DEF Given
    <3>2. p = Record(a, FALSE)
      BY <3>1 DEF New
    <3> HIDE DEF Record
    <3> QED
      BY <1>1, <3>2
  <2>2. CASE \E a \in Nat : p = [New EXCEPT !.allocator = a, !.copied = TRUE]
    <3>1. PICK a \in Nat : p = [New EXCEPT !.allocator = a, !.copied = TRUE]
      BY <2>2
    <3>2. p = Record(a, TRUE)
      BY <3>1 DEF New
    <3> HIDE DEF Record
    <3> QED
      BY <3>2
  <2> HIDE DEF Record
  <2> QED
    BY <2>1, <2>2
<1> HIDE DEF Record
<1>3. PICK a \in Nat, c \in BOOLEAN : (c \/ a \in {None, Users}) /\ p = Record(a, c)
  BY <1>2
<1>4. p = [allocator |-> a, own |-> None, buffer |-> None, tokens |-> None,
          names |-> <<>>, copied |-> c]
  BY <1>3 DEF Record
<1>5. p \in PointerType /\ p.own = None /\ p.buffer = None /\ p.names = <<>>
  BY <1>1, <1>4 DEF PointerType
<1>6. KnownAllocator(p)
  <2>1. p.allocator = a /\ p.copied = c
    BY <1>4
  <2> QED
    BY <1>3, <2>1 DEF KnownAllocator
<1>7. Sound(p)
  <2>1. DOMAIN p.names = {}
    BY <1>1, <1>5
  <2> QED
    BY <1>5, <1>6, <2>1 DEF Sound
<1>8. At(slot, p)
  BY <1>7, <1>5 DEF At, Free
<1> QED
  BY <1>8, <1>5

\* A pointer to which nothing is done follows itself.
LEMMA UnchangedFollows ==
  ASSUME MemoryInv, NEW p, Sound(p), None \notin heap.blocks, None \notin heap.allocators,
         p.buffer = None, p.own = None
  PROVE  Follows(p, Made(heap, p))
BY DEF Follows, Made, MemoryInv, Replaces

\* A pointer to the root has no block.
LEMMA DefaultKeeps ==
  ASSUME MemoryInv, Default
  PROVE  MemoryInv'
<1>1. PICK slot \in Slots, p \in Given : Free(slot) /\ Put(slot, Made(heap, p))
  BY DEF Default
<1>3. At(slot, p) /\ p.buffer = None /\ p.own = None
  BY <1>1, NewIsSound
<1>4. Follows(p, Made(heap, p))
  BY <1>3, OwnedIsAllocated, UnchangedFollows DEF At
<1> QED
  BY <1>1, <1>3, <1>4, PutKeeps

\* A text that does not parse gives its block back (pointer.h:985-991).
LEMMA ParseKeeps ==
  ASSUME MemoryInv, Parse
  PROVE  MemoryInv'
<1>1. PICK slot \in Slots, p \in Given, n \in 0 .. MaxTokens, empty \in BOOLEAN, ok \in BOOLEAN :
        /\ Free(slot) /\ (empty => n = 0 /\ ok)
        /\ LET made == Filled(heap, p, empty)
               names == [i \in 1 .. n |-> made.pointer.buffer]
           IN  Put(slot, IF ok THEN [made EXCEPT !.pointer.names = names] ELSE Unparsed(made))
  BY DEF Parse
<1>3. At(slot, p) /\ p.buffer = None /\ p.own = None /\ p.names = <<>>
  BY <1>1, NewIsSound
<1>4. None \notin heap.blocks /\ None \notin heap.allocators /\ Finite(heap) /\ Sound(p)
  BY <1>3, OwnedIsAllocated DEF MemoryInv, At
<1> DEFINE f == Filled(heap, p, empty)
           names == [i \in 1 .. n |-> f.pointer.buffer]
           made == IF ok THEN [f EXCEPT !.pointer.names = names] ELSE Unparsed(f)
<1>5. Provided(heap, p, empty, f)
  BY <1>3, <1>4, FilledGives DEF MemoryInv
<1>6. f = [heap |-> f.heap, pointer |-> f.pointer]
  BY DEF Filled, Made
<1>7. Put(slot, made)
  BY <1>1
<1> HIDE DEF f
<1>8. CASE ok
  <2> DEFINE q == [f.pointer EXCEPT !.names = names]
  <2>1. made.heap = f.heap /\ made.pointer = q
    BY <1>6, <1>8
  <2>2. f.pointer \in PointerType /\ f.pointer.buffer \in Nat
    BY <1>5 DEF Provided, PointerType
  <2>3. n \in Nat /\ names \in [1 .. n -> Nat]
    BY <2>2
  <2> HIDE DEF names
  <2>4. names \in Seq(Nat) /\ DOMAIN names = 1 .. n
    BY <2>3
  <2>5. /\ q \in PointerType /\ q.names = names
        /\ q.own = f.pointer.own /\ q.allocator = f.pointer.allocator
        /\ q.copied = f.pointer.copied
        /\ q.tokens = f.pointer.tokens /\ q.buffer = f.pointer.buffer
    BY <2>2, <2>4 DEF PointerType
  <2>6. \A i \in 1 .. n : names[i] = f.pointer.buffer /\ f.pointer.buffer # None
    BY <1>1, <1>5 DEF names, Provided
  <2> HIDE DEF q
  <2>7. Sound(q)
    BY <1>5, <2>4, <2>5, <2>6 DEF Sound, Provided, KnownAllocator
  <2>8. Follows(p, made)
    BY <1>3, <1>4, <1>5, <2>1, <2>5, <2>7 DEF Follows, Provided, Replaces
  <2> HIDE DEF made
  <2> QED
    BY <1>3, <1>7, <2>8, PutKeeps
<1>9. CASE ~ok
  <2> DEFINE q == [f.pointer EXCEPT !.buffer = None, !.tokens = None]
  <2>1. made.heap = Freed(f.heap, f.pointer) /\ made.pointer = q
    BY <1>9 DEF Unparsed, Made
  <2>2. None \in Nat
    BY DEF None
  <2>3. /\ q \in PointerType /\ q.names = p.names
        /\ q.own = f.pointer.own /\ q.allocator = f.pointer.allocator
        /\ q.copied = f.pointer.copied
        /\ q.tokens = None /\ q.buffer = None
    BY <1>5, <2>2 DEF Provided, PointerType
  <2>4. Sound(f.pointer) /\ Finite(f.heap) /\ None \notin f.heap.blocks
    BY <1>3, <1>4, <1>5 DEF Sound, Provided
  <2>5. /\ Finite(made.heap)
        /\ made.heap.blocks = f.heap.blocks \ {f.pointer.buffer}
        /\ made.heap.allocators = f.heap.allocators
    BY <2>1, <2>4, FreedGives
  <2>6. made.heap.blocks = heap.blocks
    <3>1. /\ f.pointer.buffer = None \/ f.pointer.buffer \notin heap.blocks
          /\ f.heap.blocks = heap.blocks \cup ({f.pointer.buffer} \ {None})
      BY <1>5 DEF Provided
    <3> HIDE DEF made
    <3> QED
      BY <1>4, <2>5, <3>1
  <2> HIDE DEF q
  <2>7. Sound(q)
    BY <1>3, <1>5, <2>3 DEF Sound, Provided, KnownAllocator
  <2>8. Follows(p, made)
    BY <1>3, <1>4, <1>5, <2>1, <2>3, <2>5, <2>6, <2>7 DEF Follows, Provided, Replaces
  <2> HIDE DEF made
  <2> QED
    BY <1>3, <1>7, <2>8, PutKeeps
<1> QED
  BY <1>8, <1>9

\* A pointer to tokens of the program owns nothing.
LEMMA FromTokensKeeps ==
  ASSUME MemoryInv, FromTokens
  PROVE  MemoryInv'
<1>1. PICK slot \in Slots, n \in 0 .. MaxTokens :
        /\ Free(slot)
        /\ Put(slot, Made(heap, [New EXCEPT !.tokens = Users,
                                            !.names = [i \in 1 .. n |-> Users]]))
  BY DEF FromTokens
<1> DEFINE names == [i \in 1 .. n |-> Users]
           p == [New EXCEPT !.tokens = Users, !.names = names]
<1>2. None \in Nat /\ Users \in Nat /\ n \in Nat
  BY DEF None, Users
<1>3. names \in [1 .. n -> Nat]
  BY <1>2
<1>4. \A i \in DOMAIN names : names[i] = Users
  OBVIOUS
<1>5. Put(slot, Made(heap, p))
  BY <1>1
<1> HIDE DEF names
<1>6. names \in Seq(Nat)
  BY <1>2, <1>3
<1>7. /\ New \in PointerType /\ New.own = None /\ New.buffer = None
      /\ New.allocator = None
  <2>1. <<>> \in Seq(Nat)
    OBVIOUS
  <2> QED
    BY <1>2, <2>1 DEF New, PointerType
<1>8. /\ p \in PointerType /\ p.own = None /\ p.buffer = None /\ p.names = names
      /\ p.allocator = None
  <2> HIDE DEF New
  <2> QED
    BY <1>2, <1>6, <1>7 DEF PointerType
<1> HIDE DEF p
<1>9. Sound(p)
  BY <1>4, <1>8 DEF Sound, KnownAllocator
<1>10. At(slot, p)
  BY <1>1, <1>8, <1>9 DEF At, Free
<1>11. Follows(p, Made(heap, p))
  BY <1>8, <1>9, <1>10, OwnedIsAllocated, UnchangedFollows
<1> QED
  BY <1>5, <1>10, <1>11, PutKeeps

\* A copy has a block of its own.
LEMMA CopyKeeps ==
  ASSUME MemoryInv, Copy
  PROVE  MemoryInv'
<1>1. PICK slot \in Slots, from \in DOMAIN pointers :
        /\ Free(slot)
        /\ \E p \in Given \cup {[New EXCEPT !.allocator = pointers[from].allocator,
                                          !.copied = TRUE]} :
             Put(slot, Assigned(heap, p, pointers[from]))
  BY DEF Copy
<1>2. PICK p \in Given \cup {[New EXCEPT !.allocator = pointers[from].allocator,
                                        !.copied = TRUE]} :
        Put(slot, Assigned(heap, p, pointers[from]))
  BY <1>1
<1>3. pointers[from].allocator \in Nat
  BY DEF MemoryInv, Sound, PointerType
<1>4. At(slot, p)
  BY <1>1, <1>2, <1>3, NewIsSound
<1> QED
  BY <1>2, <1>4, AssignedFollows, PutKeeps

\* One that is assigned to gives back its block first.
LEMMA AssignKeeps ==
  ASSUME MemoryInv, Assign
  PROVE  MemoryInv'
<1>1. PICK slot \in DOMAIN pointers, from \in DOMAIN pointers :
        Put(slot, Assigned(heap, pointers[slot], pointers[from]))
  BY DEF Assign
<1>2. At(slot, pointers[slot])
  BY DEF At, MemoryInv
<1> QED
  BY <1>1, <1>2, AssignedFollows, PutKeeps

\* Pointers that are swapped swap what they own.
LEMMA SwapKeeps ==
  ASSUME MemoryInv, Swap
  PROVE  MemoryInv'
<1>1. PICK a \in DOMAIN pointers, b \in DOMAIN pointers :
        /\ a # b
        /\ pointers' = [pointers EXCEPT ![a] = pointers[b], ![b] = pointers[a]]
  BY DEF Swap
<1> DEFINE D == DOMAIN pointers
<1>2. /\ DOMAIN pointers' = D /\ heap' = heap
      /\ \A s \in D : pointers'[s] = IF s = b THEN pointers[a]
                                     ELSE IF s = a THEN pointers[b] ELSE pointers[s]
  BY <1>1 DEF Swap
<1>3. \A s \in D : Sound(pointers'[s])
  BY <1>2 DEF MemoryInv
<1>4. Owned(heap.blocks, DOMAIN pointers, Buffers)'
  <2>1. Owned(heap.blocks, D, Buffers)
    BY OwnedOnceParts DEF MemoryInv
  <2>2. \A s \in D : Buffers'[s] = IF s = b THEN Buffers[a]
                                   ELSE IF s = a THEN Buffers[b] ELSE Buffers[s]
    BY <1>2 DEF Buffers
  <2>3. Owned(heap.blocks, D, Buffers')
    BY <1>1, <2>1, <2>2, OwnedAfterSwap
  <2> QED
    BY <1>2, <2>3 DEF Owned
<1>5. Owned(heap.allocators, DOMAIN pointers, Owns)'
  <2>1. Owned(heap.allocators, D, Owns)
    BY OwnedOnceParts DEF MemoryInv
  <2>2. \A s \in D : Owns'[s] = IF s = b THEN Owns[a]
                                ELSE IF s = a THEN Owns[b] ELSE Owns[s]
    BY <1>2 DEF Owns
  <2>3. Owned(heap.allocators, D, Owns')
    BY <1>1, <2>1, <2>2, OwnedAfterSwap
  <2> QED
    BY <1>2, <2>3 DEF Owned
<1> QED
  BY <1>2, <1>3, <1>4, <1>5, PartsAfter DEF MemoryInv

\* Append copies, when there is a buffer to copy from or nothing to copy (pointer.h:244-253).
LEMMA AppendTokenKeeps ==
  ASSUME MemoryInv, NEW slot \in Slots, NEW from \in DOMAIN pointers, NEW p \in Given, Free(slot),
         ~NullNames(pointers[from]), Put(slot, CopyFromRaw(heap, p, pointers[from], 1))
  PROVE  MemoryInv'
<1>3. At(slot, p) /\ p.buffer = None /\ p.own = None
  BY NewIsSound
<1> DEFINE rhs == pointers[from]
           m == CopyFromRaw(heap, p, rhs, 1)
<1>4. Sound(rhs) /\ rhs.names \in Seq(Nat)
  BY DEF MemoryInv, Sound, PointerType
<1>5. rhs.buffer # None \/ rhs.names = <<>>
  BY DEF NullNames
<1>6. None \notin heap.blocks /\ None \notin heap.allocators /\ Finite(heap) /\ Sound(p)
  BY <1>3, OwnedIsAllocated DEF MemoryInv, At
<1>7. /\ Finite(m.heap)
      /\ Sound(m.pointer)
      /\ Replaces(heap.allocators, p.own, m.pointer.own, m.heap.allocators)
      /\ m.pointer.buffer \notin (heap.blocks \cup {p.buffer}) \ {None}
      /\ m.heap.blocks = heap.blocks \cup ({m.pointer.buffer} \ {None})
  <2> HIDE DEF rhs
  <2> QED
    BY <1>3, <1>4, <1>5, <1>6, CopyGives DEF MemoryInv
<1>8. Put(slot, m)
  OBVIOUS
<1> HIDE DEF m
<1>9. Follows(p, m)
  BY <1>3, <1>6, <1>7 DEF Follows, Replaces
<1> QED
  BY <1>3, <1>8, <1>9, PutKeeps

\* The destructor frees what the pointer owns (pointer.h:175-180).
LEMMA DeleteKeeps ==
  ASSUME MemoryInv, Delete
  PROVE  MemoryInv'
<1>1. PICK slot \in DOMAIN pointers :
        /\ heap' = [Freed(heap, pointers[slot]) EXCEPT !.allocators = @ \ {pointers[slot].own}]
        /\ pointers' = [s \in DOMAIN pointers \ {slot} |-> pointers[s]]
  BY DEF Delete
<1> DEFINE D == DOMAIN pointers
           p == pointers[slot]
<1>2. At(slot, p) /\ Sound(p) /\ Finite(heap)
  BY DEF At, MemoryInv
<1>3. None \notin heap.blocks
  BY <1>2, OwnedIsAllocated
<1>4. /\ Finite(Freed(heap, p))
      /\ Freed(heap, p).blocks = heap.blocks \ {p.buffer}
      /\ Freed(heap, p).allocators = heap.allocators
  BY <1>2, <1>3, FreedGives
<1>5. /\ heap' \in HeapType
      /\ heap'.blocks = heap.blocks \ {p.buffer}
      /\ heap'.allocators = heap.allocators \ {p.own}
  BY <1>1, <1>4 DEF Finite, HeapType
<1>6. Finite(heap')
  <2>1. IsFiniteSet(heap.blocks \ {p.buffer}) /\ IsFiniteSet(heap.allocators \ {p.own})
    BY <1>2, FS_RemoveElement DEF Finite
  <2> QED
    BY <1>5, <2>1 DEF Finite
<1>7. DOMAIN pointers' = D \ {slot} /\ \A s \in D \ {slot} : pointers'[s] = pointers[s]
  BY <1>1
<1>8. IsFiniteSet(D \ {slot})
  BY FS_RemoveElement DEF MemoryInv
<1>9. Owned(heap.blocks, DOMAIN pointers, Buffers)'
  <2>1. Owned(heap.blocks, D, Buffers)
    BY OwnedOnceParts DEF MemoryInv
  <2>2. (\A s \in D \ {slot} : Buffers'[s] = Buffers[s]) /\ Buffers[slot] = p.buffer
    BY <1>7 DEF Buffers
  <2>3. Owned(heap'.blocks, D \ {slot}, Buffers')
    BY <1>5, <2>1, <2>2, OwnedAfterDelete
  <2> QED
    BY <1>7, <2>3 DEF Owned
<1>10. Owned(heap.allocators, DOMAIN pointers, Owns)'
  <2>1. Owned(heap.allocators, D, Owns)
    BY OwnedOnceParts DEF MemoryInv
  <2>2. (\A s \in D \ {slot} : Owns'[s] = Owns[s]) /\ Owns[slot] = p.own
    BY <1>7 DEF Owns
  <2>3. Owned(heap'.allocators, D \ {slot}, Owns')
    BY <1>5, <2>1, <2>2, OwnedAfterDelete
  <2> QED
    BY <1>7, <2>3 DEF Owned
<1> QED
  BY <1>6, <1>7, <1>8, <1>9, <1>10, PartsAfter DEF MemoryInv

\* There are no pointers, and no memory.
LEMMA InitHolds ==
  ASSUME Init
  PROVE  MemoryInv
<1>1. DOMAIN pointers = {}
  BY EmptySeq DEF Init
<1>2. IsFiniteSet(DOMAIN pointers)
  BY <1>1, FS_EmptySet
<1>3. heap \in HeapType /\ heap.blocks = {} /\ heap.allocators = {}
  BY DEF Init, HeapType
<1>4. Finite(heap)
  BY <1>3, FS_EmptySet DEF Finite
<1> QED
  BY <1>1, <1>2, <1>3, <1>4 DEF MemoryInv, OwnedOnce

\* A step leaves a crash as it was, or is one.
LEMMA OnlyTheseCrash ==
  ASSUME [Next]_vars, crashed' # crashed
  PROVE  /\ pointers' = pointers
         /\ \E s \in DOMAIN pointers : NullNames(pointers[s])
<1>1. ASSUME Default \/ Parse \/ FromTokens \/ Copy \/ Assign \/ Swap \/ Delete
      PROVE  crashed' = crashed
  BY <1>1 DEF Default, Parse, FromTokens, Copy, Assign, Swap, Delete, Put
<1>2. CASE AppendToken
  BY <1>2 DEF AppendToken, Put
<1> QED
  BY <1>1, <1>2 DEF Next, vars

\* A program that has crashed takes no step.
LEMMA CrashedIsStill ==
  ASSUME [Next]_vars, crashed
  PROVE  UNCHANGED vars
BY DEF Next, Default, Parse, FromTokens, Copy, Assign, Swap, AppendToken, Delete, Call

\* A crash comes of names that are null.
LEMMA CrashKeeps ==
  ASSUME OnlyNullNamesCrash, [Next]_vars, crashed \in BOOLEAN
  PROVE  OnlyNullNamesCrash' /\ crashed' \in BOOLEAN
<1>1. CASE crashed
  <2>1. pointers' = pointers /\ crashed' = crashed
    BY <1>1, CrashedIsStill DEF vars
  <2> QED
    BY <1>1, <2>1 DEF OnlyNullNamesCrash, NullNames
<1>2. CASE ~crashed /\ crashed' = crashed
  BY <1>2 DEF OnlyNullNamesCrash
<1>3. CASE crashed' # crashed
  <2>1. pointers' = pointers /\ \E s \in DOMAIN pointers : NullNames(pointers[s])
    BY <1>3, OnlyTheseCrash
  <2>2. crashed' \in BOOLEAN
    BY <1>3 DEF Next, vars, Default, Parse, FromTokens, Copy, Assign, Swap, AppendToken, Delete, Put
  <2> QED
    BY <2>1, <2>2 DEF OnlyNullNamesCrash, NullNames
<1> QED
  BY <1>1, <1>2, <1>3

\* Every block and every allocator that pointers made is owned by one pointer, and the names
\* of a pointer lie in its own block, as long as the pointer is there, as is its allocator
\* unless it was copied without one, whatever is parsed, copied, assigned, swapped, appended
\* to and deleted; only appending to the program's tokens crashes (pointer.h:107-217, 244-253,
\* 819-843).
THEOREM PointersOwn == Spec => []PointersOwnTheirMemory
<1>1. Init => MemoryInv
  BY InitHolds
<1>2. MemoryInv /\ [Next]_vars => MemoryInv'
  <2> SUFFICES ASSUME MemoryInv, [Next]_vars PROVE MemoryInv'
    OBVIOUS
  <2>1. CASE Next /\ ~AppendToken
    BY <2>1, DefaultKeeps, ParseKeeps, FromTokensKeeps, CopyKeeps, AssignKeeps, SwapKeeps,
       DeleteKeeps DEF Next
  <2>3. CASE AppendToken
    <3>1. CASE pointers' = pointers /\ heap' = heap
      BY <3>1 DEF MemoryInv, OwnedOnce
    <3>2. CASE ~(pointers' = pointers /\ heap' = heap)
      BY <2>3, <3>2, AppendTokenKeeps DEF AppendToken
    <3> QED
      BY <3>1, <3>2
  <2>2. CASE UNCHANGED vars
    BY <2>2 DEF vars, MemoryInv, OwnedOnce
  <2> QED
    BY <2>1, <2>2, <2>3
<1>4. Init => OnlyNullNamesCrash /\ crashed \in BOOLEAN
  BY DEF Init, OnlyNullNamesCrash
<1>5. OnlyNullNamesCrash /\ crashed \in BOOLEAN /\ [Next]_vars
        => OnlyNullNamesCrash' /\ (crashed \in BOOLEAN)'
  BY CrashKeeps
<1>3. MemoryInv /\ OnlyNullNamesCrash => PointersOwnTheirMemory
  <2> SUFFICES ASSUME MemoryInv PROVE NamesAreAlive /\ AllocatorsAreAlive
    BY DEF MemoryInv, PointersOwnTheirMemory
  <2>3. ASSUME NEW s \in DOMAIN pointers
        PROVE  LET p == pointers[s]
               IN  /\ p.allocator \in {None, Users, p.own} \/ (p.copied /\ p.own = None)
                   /\ \/ p.allocator \in {None, Users} \cup heap.allocators
                      \/ p.copied /\ p.own = None
    <3>1. /\ pointers[s].own \in heap.allocators \cup {None}
          /\ pointers[s].own \in {None, pointers[s].allocator}
          /\ KnownAllocator(pointers[s])
      BY DEF MemoryInv, OwnedOnce, Sound
    <3> QED
      BY <3>1 DEF KnownAllocator
  <2>4. AllocatorsAreAlive
    BY <2>3 DEF AllocatorsAreAlive
  <2>1. \A s \in DOMAIN pointers : pointers[s].buffer \in heap.blocks \cup {None}
    BY DEF MemoryInv, OwnedOnce
  <2>2. ASSUME NEW s \in DOMAIN pointers, NEW i \in DOMAIN pointers[s].names
        PROVE  pointers[s].names[i] \in {Users, pointers[s].buffer} \ {None}
    BY DEF MemoryInv, Sound, Users, None
  <2> QED
    BY <2>1, <2>2, <2>4 DEF NamesAreAlive
<1> QED
  BY <1>1, <1>2, <1>3, <1>4, <1>5, PTL DEF Spec

=============================================================================
