-------------------------- MODULE Handshake_proofs --------------------------
(***************************************************************************)
(* What the parent, its children and its clients keep of each other in     *)
(* module Handshake, for any number of clients and of repeated, lost and   *)
(* late datagrams.                                                         *)
(***************************************************************************)
EXTENDS Handshake, FiniteSetTheorems, SequenceTheorems, TLAPS

ChildRec ==
  [pc : {"start", "await", "transfer", "zombie", "reaped"},
   of : Client, nrexmt : 0 .. MaxNrexmt + 1, window : BOOLEAN]

ClientRec(n) ==
  [pc : {"ask", "select", "transfer", "done"}, peer : 0 .. n, asked : 0 .. MaxAsk]

Types ==
  /\ connected \subseteq Client /\ requests \in Seq(Client)
  /\ chldPending \in BOOLEAN /\ inHandler \in BOOLEAN
  /\ child \in Seq(ChildRec)
  /\ client \in [Client -> ClientRec(Len(child))]
  /\ inbox \in [Client -> Seq(1 .. Len(child))]
  /\ losses \in 0 .. MaxLoss /\ reuses \in 0 .. MaxReuse

LEMMA TypesSuffice == Types => HandshakeTypeOK
<1>. SUFFICES ASSUME Types PROVE HandshakeTypeOK
  OBVIOUS
<1>1. Children \cup {Listen} = 0 .. Len(child)
  BY DEF Types, Children, Listen
<1>. QED  BY <1>1 DEF Types, HandshakeTypeOK, ChildRec, ClientRec, Children

----------------------------------------------------------------------------
(* What steps do to the children *)

\* One child changes, and belongs to the same client as before.
LEMMA ChildChanges ==
  ASSUME child \in Seq(ChildRec), NEW k \in Children, NEW r \in ChildRec,
         child' = [child EXCEPT ![k] = r]
  PROVE  /\ child' \in Seq(ChildRec) /\ Len(child') = Len(child)
         /\ Children' = Children
         /\ \A i \in Children : child'[i] = IF i = k THEN r ELSE child[i]
<1>1. k \in 1 .. Len(child)
  BY DEF Children
<1>. QED  BY <1>1, ExceptSeq DEF Children

LEMMA ChildRecord ==
  ASSUME child \in Seq(ChildRec), NEW k \in Children
  PROVE  child[k] \in ChildRec /\ k \in 1 .. Len(child)
BY ElementOfSeq DEF Children

LEMMA LoseType ==
  ASSUME losses \in 0 .. MaxLoss, Lose
  PROVE  losses' \in 0 .. MaxLoss
BY HandshakeAssumption DEF Lose

LEMMA DeliverType ==
  ASSUME NEW n \in Nat, inbox \in [Client -> Seq(1 .. n)],
         NEW c \in Client, NEW k \in 1 .. n, NEW froms,
         IsFiniteSet(froms), Deliver(c, k, froms)
  PROVE  /\ inbox' \in [Client -> Seq(1 .. n)]
         /\ \A d \in Client : d # c => inbox'[d] = inbox[d]
         /\ \A i \in 1 .. Len(inbox'[c]) :
              inbox'[c][i] = IF i <= Len(inbox[c]) THEN inbox[c][i] ELSE k
<1>. DEFINE m == Cardinality({f \in froms : Accepts(c, f)})
            t == [i \in 1 .. m |-> k]
<1>1. m \in Nat
  BY FS_Subset, FS_CardinalityType
<1>2. t \in Seq(1 .. n) /\ Len(t) = m /\ \A i \in 1 .. m : t[i] = k
  BY <1>1
<1>3. inbox' = [inbox EXCEPT ![c] = inbox[c] \o t]
  BY DEF Deliver
<1>4. inbox[c] \in Seq(1 .. n) /\ Len(inbox[c]) \in Nat
  OBVIOUS
<1>. HIDE DEF m, t
<1>5. /\ inbox[c] \o t \in Seq(1 .. n) /\ Len(inbox[c] \o t) = Len(inbox[c]) + m
      /\ \A i \in 1 .. Len(inbox[c]) + m :
           (inbox[c] \o t)[i] = IF i <= Len(inbox[c]) THEN inbox[c][i] ELSE t[i - Len(inbox[c])]
  BY <1>2, <1>4, ConcatProperties
<1>6. \A i \in 1 .. Len(inbox[c]) + m : ~(i <= Len(inbox[c])) => t[i - Len(inbox[c])] = k
  BY <1>1, <1>2, <1>4
<1>7. inbox'[c] = inbox[c] \o t
  BY <1>3
<1>8. ASSUME NEW i \in 1 .. Len(inbox'[c])
      PROVE  inbox'[c][i] = IF i <= Len(inbox[c]) THEN inbox[c][i] ELSE k
  BY <1>5, <1>6, <1>7
<1>9. \A d \in Client : d # c => inbox'[d] = inbox[d]
  BY <1>3
<1>. QED  BY <1>3, <1>5, <1>8, <1>9

\* What is known of a child when the others stay as they are.
SameFamily ==
  /\ connected' = connected
  /\ child' \in Seq(ChildRec) /\ Len(child') = Len(child)
  /\ \A i \in Children : child'[i].of = child[i].of

LEMMA ChildChangesFamily ==
  ASSUME child \in Seq(ChildRec), NEW k \in Children, NEW r \in ChildRec,
         r.of = child[k].of, connected' = connected,
         child' = [child EXCEPT ![k] = r]
  PROVE  SameFamily
<1>1. /\ child' \in Seq(ChildRec) /\ Len(child') = Len(child)
      /\ \A i \in Children : child'[i] = IF i = k THEN r ELSE child[i]
  BY ChildChanges
<1>2. \A i \in Children : child'[i].of = child[i].of
  BY <1>1
<1>. QED  BY <1>1, <1>2 DEF SameFamily

LEMMA ExitFamily ==
  ASSUME child \in Seq(ChildRec), NEW k \in Children, NEW how \in 0 .. MaxNrexmt + 1,
         connected' = connected, Exit(k, how)
  PROVE  /\ SameFamily /\ chldPending' = TRUE /\ inHandler' = inHandler
         /\ child' = [child EXCEPT ![k] = [child[k] EXCEPT !.pc = "zombie", !.nrexmt = how,
                                                           !.window = FALSE]]
<1>. DEFINE r == [child[k] EXCEPT !.pc = "zombie", !.nrexmt = how, !.window = FALSE]
<1>1. child[k] \in ChildRec
  BY ChildRecord
<1>2. r \in ChildRec /\ r.of = child[k].of
  BY <1>1 DEF ChildRec
<1>3. child' = [child EXCEPT ![k] = r] /\ chldPending' = TRUE /\ inHandler' = inHandler
  BY DEF Exit
<1>. HIDE DEF r
<1>4. SameFamily
  BY <1>2, <1>3, ChildChangesFamily
<1>. QED  BY <1>3, <1>4 DEF r

\* Types of the variables when the children keep their number.
LEMMA TypesOfFamily ==
  ASSUME Types, SameFamily,
         requests' \in Seq(Client), chldPending' \in BOOLEAN, inHandler' \in BOOLEAN,
         client' \in [Client -> ClientRec(Len(child))],
         inbox' \in [Client -> Seq(1 .. Len(child))],
         losses' \in 0 .. MaxLoss, reuses' \in 0 .. MaxReuse
  PROVE  Types'
BY DEF Types, SameFamily, ClientRec, ChildRec

LEMMA ClientStepTypes ==
  ASSUME Types, NEW c \in Client, ClientStep(c) \/ Reuse(c)
  PROVE  Types' /\ SameFamily
<1>0. /\ Len(child) \in Nat /\ client[c] \in ClientRec(Len(child))
      /\ MaxAsk \in Nat /\ MaxReuse \in Nat
  BY HandshakeAssumption DEF Types
<1>1. CASE SendRequest(c)
  <2>1. SameFamily
    BY <1>1 DEF SendRequest, SameFamily, Types
  <2>2. losses' \in 0 .. MaxLoss
    BY <1>1, LoseType DEF SendRequest, Types
  <2>4. requests' \in Seq(Client)
    <3>1. requests' = requests \/ requests' = Append(requests, c)
      BY <1>1 DEF SendRequest
    <3>2. requests \in Seq(Client)
      BY DEF Types
    <3>. QED  BY <3>1, <3>2
  <2>3. client' \in [Client -> ClientRec(Len(child))]
    BY <1>0, <1>1 DEF SendRequest, Types, ClientRec
  <2>. QED  BY <1>1, <2>1, <2>2, <2>3, <2>4, TypesOfFamily DEF SendRequest, Types, sigVars
<1>2. CASE SelectTimeout(c)
  <2>1. SameFamily
    BY <1>2 DEF SelectTimeout, SameFamily, Types, parentVars
  <2>3. client' \in [Client -> ClientRec(Len(child))]
    BY <1>0, <1>2 DEF SelectTimeout, Types, ClientRec
  <2>. QED
    BY <1>2, <2>1, <2>3, TypesOfFamily DEF SelectTimeout, Types, parentVars, sigVars
<1>3. CASE RecvPort(c)
  <2>. DEFINE k == Head(inbox[c])
  <2>1. inbox[c] \in Seq(1 .. Len(child)) /\ inbox[c] # <<>>
    BY <1>3 DEF RecvPort, Types
  <2>2. k \in Children /\ Tail(inbox[c]) \in Seq(1 .. Len(child))
    BY <2>1, HeadTailProperties DEF Children
  <2>. HIDE DEF k
  <2>3. child' = child \/ child' = [child EXCEPT ![k] = [child[k] EXCEPT !.window = TRUE]]
    BY <1>3 DEF RecvPort, k
  <2>4. child[k] \in ChildRec
    BY <2>2, ChildRecord DEF Types
  <2>5. [child[k] EXCEPT !.window = TRUE] \in ChildRec
        /\ [child[k] EXCEPT !.window = TRUE].of = child[k].of
    BY <2>4 DEF ChildRec
  <2>6. connected' = connected
    BY <1>3 DEF RecvPort, parentVars
  <2>7. SameFamily
    BY <2>2, <2>3, <2>5, <2>6, ChildChangesFamily DEF Types, SameFamily
  <2>8. client' \in [Client -> ClientRec(Len(child))]
    <3>1. client' = [client EXCEPT ![c] = [pc |-> "transfer", peer |-> k, asked |-> 0]]
      BY <1>3 DEF RecvPort, k
    <3>. QED  BY <1>0, <2>2, <3>1 DEF Types, ClientRec, Children
  <2>9. losses' \in 0 .. MaxLoss
    BY <1>3, LoseType DEF RecvPort, Types
  <2>10. inbox' \in [Client -> Seq(1 .. Len(child))]
    BY <1>3, <2>2 DEF RecvPort, Types
  <2>. QED
    BY <1>3, <2>7, <2>8, <2>9, <2>10, TypesOfFamily DEF RecvPort, Types, parentVars, sigVars
<1>4. CASE Reuse(c)
  <2>1. SameFamily
    BY <1>4 DEF Reuse, SameFamily, Types, parentVars
  <2>2. client' \in [Client -> ClientRec(Len(child))]
    BY <1>0, <1>4 DEF Reuse, Types, ClientRec, Fresh, Listen
  <2>3. reuses' \in 0 .. MaxReuse
    BY <1>0, <1>4 DEF Reuse, Types
  <2>4. inbox' \in [Client -> Seq(1 .. Len(child))]
    BY <1>4 DEF Reuse, Types
  <2>. QED
    BY <1>4, <2>1, <2>2, <2>3, <2>4, TypesOfFamily DEF Reuse, Types, parentVars, sigVars
<1>. QED  BY <1>1, <1>2, <1>3, <1>4 DEF ClientStep

LEMMA ForkTypes ==
  ASSUME Types, Fork
  PROVE  /\ Types' /\ Len(child') = Len(child) + 1
         /\ requests # <<>> /\ Head(requests) \in Client
         /\ child'[Len(child) + 1] = NewChild(Head(requests))
         /\ \A i \in Children : child'[i] = child[i]
<1>1. requests # <<>> /\ Head(requests) \in Client /\ Tail(requests) \in Seq(Client)
  BY HeadTailProperties DEF Fork, Types
<1>2. NewChild(Head(requests)) \in ChildRec
  BY <1>1, HandshakeAssumption DEF NewChild, ChildRec
<1>3. /\ child' \in Seq(ChildRec) /\ Len(child') = Len(child) + 1 /\ Len(child) \in Nat
      /\ child'[Len(child) + 1] = NewChild(Head(requests))
      /\ \A i \in Children : child'[i] = child[i]
  <2>. DEFINE e == NewChild(Head(requests))
  <2>1. child' = Append(child, e) /\ e \in ChildRec
    BY <1>2 DEF Fork
  <2>. HIDE DEF e
  <2>2. /\ child' \in Seq(ChildRec) /\ Len(child') = Len(child) + 1 /\ Len(child) \in Nat
        /\ child'[Len(child) + 1] = e
        /\ \A i \in 1 .. Len(child) : child'[i] = child[i]
    BY <2>1 DEF Types
  <2>. QED  BY <2>2 DEF Children, e
<1>4. connected' \subseteq Client
  BY <1>1 DEF Fork, InsertConnected, Types
<1>5. client \in [Client -> ClientRec(Len(child'))]
  BY <1>3 DEF Types, ClientRec
<1>6. inbox \in [Client -> Seq(1 .. Len(child'))]
  <2>1. 1 .. Len(child) \subseteq 1 .. Len(child')
    BY <1>3
  <2>2. ASSUME NEW c \in Client  PROVE inbox[c] \in Seq(1 .. Len(child'))
    <3>1. inbox[c] \in Seq(1 .. Len(child))
      BY DEF Types
    <3>. QED  BY <2>1, <3>1, SeqMonotonic
  <2>. QED  BY <2>2 DEF Types
<1>7. Types'
  BY <1>1, <1>3, <1>4, <1>5, <1>6 DEF Types, Fork, sigVars
<1>. QED  BY <1>1, <1>3, <1>7

LEMMA ParentStepTypes ==
  ASSUME Types, IgnoreDuplicate \/ CatchChld \/ Reap
  PROVE  Types' /\ SameFamily
<1>1. CASE IgnoreDuplicate
  <2>1. SameFamily
    BY <1>1 DEF IgnoreDuplicate, SameFamily, Types
  <2>2. requests' \in Seq(Client)
    BY <1>1, HeadTailProperties DEF IgnoreDuplicate, Types
  <2>. QED  BY <1>1, <2>1, <2>2, TypesOfFamily DEF IgnoreDuplicate, Types, sigVars
<1>2. CASE CatchChld
  <2>1. SameFamily
    BY <1>2 DEF CatchChld, SameFamily, Types
  <2>. QED  BY <1>2, <2>1, TypesOfFamily DEF CatchChld, Types
<1>3. CASE Reap
  <2>1. PICK k \in Zombies : child' = [child EXCEPT ![k].pc = "reaped"]
    BY <1>3 DEF Reap
  <2>2. k \in Children /\ child[k] \in ChildRec
    BY ChildRecord DEF Zombies, Types
  <2>3. [child[k] EXCEPT !.pc = "reaped"] \in ChildRec
        /\ [child[k] EXCEPT !.pc = "reaped"].of = child[k].of
    BY <2>2 DEF ChildRec
  <2>4. SameFamily
    BY <1>3, <2>1, <2>2, <2>3, ChildChangesFamily DEF Reap, Types
  <2>. QED  BY <1>3, <2>4, TypesOfFamily DEF Reap, Types
<1>. QED  BY <1>1, <1>2, <1>3

LEMMA SendsTypes ==
  ASSUME Types, NEW k \in Children, SendPort(k) \/ ResendPort(k)
  PROVE  Types' /\ SameFamily
<1>. DEFINE r == IF SendPort(k) THEN [child[k] EXCEPT !.pc = "await"]
                               ELSE [child[k] EXCEPT !.nrexmt = child[k].nrexmt + 1]
            froms == IF SendPort(k) THEN {Listen} ELSE {Listen, k}
<1>1. child[k] \in ChildRec /\ k \in 1 .. Len(child) /\ Len(child) \in Nat
  BY ChildRecord DEF Types
<1>2. r \in ChildRec /\ r.of = child[k].of
  BY <1>1, HandshakeAssumption DEF ChildRec, ResendPort
<1>3. /\ child' = [child EXCEPT ![k] = r]
      /\ \/ Lose /\ UNCHANGED inbox
         \/ Deliver(child[k].of, k, froms) /\ UNCHANGED losses
      /\ UNCHANGED <<parentVars, client, reuses>>
  BY DEF SendPort, ResendPort
<1>. HIDE DEF r
<1>4. SameFamily
  BY <1>2, <1>3, ChildChangesFamily DEF Types, parentVars
<1>5. IsFiniteSet(froms)
  <2>1. IsFiniteSet({Listen}) /\ IsFiniteSet({Listen} \cup {k})
    BY FS_Singleton, FS_AddElement
  <2>2. {Listen, k} = {Listen} \cup {k}
    OBVIOUS
  <2>. QED  BY <2>1, <2>2
<1>. HIDE DEF froms
<1>6. losses' \in 0 .. MaxLoss
  BY <1>3, LoseType DEF Types
<1>7. inbox' \in [Client -> Seq(1 .. Len(child))]
  <2>1. child[k].of \in Client
    BY <1>1 DEF ChildRec
  <2>2. inbox \in [Client -> Seq(1 .. Len(child))]
    BY DEF Types
  <2>. QED  BY <1>1, <1>3, <1>5, <2>1, <2>2, DeliverType
<1>. QED
  BY <1>3, <1>4, <1>6, <1>7, TypesOfFamily DEF Types, parentVars, sigVars

LEMMA ClientEnds ==
  ASSUME NEW n \in Nat, NEW r \in ClientRec(n)
  PROVE  [r EXCEPT !.pc = "done", !.peer = Listen] \in ClientRec(n)
<1>1. Listen \in 0 .. n
  BY DEF Listen
<1>2. ASSUME NEW m \in 0 .. n  PROVE [r EXCEPT !.pc = "done", !.peer = m] \in ClientRec(n)
  BY DEF ClientRec
<1>. QED  BY <1>1, <1>2

LEMMA OtherChildStepTypes ==
  ASSUME Types, NEW k \in Children, GiveUp(k) \/ RecvWindow(k) \/ TransferEnds(k)
  PROVE  Types' /\ SameFamily
<1>1. child[k] \in ChildRec /\ Len(child) \in Nat /\ MaxNrexmt \in Nat
  BY ChildRecord, HandshakeAssumption DEF Types
<1>5. child \in Seq(ChildRec) /\ 0 \in 0 .. MaxNrexmt + 1 /\ MaxNrexmt + 1 \in 0 .. MaxNrexmt + 1
  BY <1>1 DEF Types
<1>2. CASE GiveUp(k)
  <2>1. SameFamily /\ chldPending' = TRUE /\ inHandler' = inHandler
    <3>1. Exit(k, MaxNrexmt + 1) /\ connected' = connected
      BY <1>2 DEF GiveUp
    <3>. QED  BY <1>5, <3>1, ExitFamily
  <2>. QED  BY <1>2, <2>1, TypesOfFamily DEF GiveUp, Types
<1>3. CASE RecvWindow(k)
  <2>1. CASE Exit(k, 0)
    <3>1. SameFamily /\ chldPending' = TRUE /\ inHandler' = inHandler
      <4>1. connected' = connected
        BY <1>3 DEF RecvWindow
      <4>. QED  BY <1>5, <2>1, <4>1, ExitFamily
    <3>. QED  BY <1>3, <3>1, TypesOfFamily DEF RecvWindow, Types
  <2>2. CASE ~ Exit(k, 0)
    <3>. DEFINE r == [child[k] EXCEPT !.pc = "transfer", !.window = FALSE]
    <3>1. r \in ChildRec /\ r.of = child[k].of
      BY <1>1 DEF ChildRec
    <3>2. child' = [child EXCEPT ![k] = r]
      BY <1>3, <2>2 DEF RecvWindow
    <3>. HIDE DEF r
    <3>3. SameFamily
      BY <1>3, <3>1, <3>2, ChildChangesFamily DEF RecvWindow, Types
    <3>. QED  BY <1>3, <2>2, <3>3, TypesOfFamily DEF RecvWindow, Types, sigVars
  <2>. QED  BY <2>1, <2>2
<1>4. CASE TransferEnds(k)
  <2>. DEFINE c == child[k].of
  <2>1. c \in Client
    BY <1>1 DEF ChildRec
  <2>2. SameFamily /\ chldPending' = TRUE /\ inHandler' = inHandler
    <3>1. Exit(k, 0) /\ connected' = connected
      BY <1>4 DEF TransferEnds
    <3>. QED  BY <1>5, <3>1, ExitFamily
  <2>3. client' \in [Client -> ClientRec(Len(child))]
    <3>1. client' = [client EXCEPT ![c] = [client[c] EXCEPT !.pc = "done", !.peer = Listen]]
      BY <1>4 DEF TransferEnds
    <3>2. client[c] \in ClientRec(Len(child)) /\ client \in [Client -> ClientRec(Len(child))]
      BY <2>1 DEF Types
    <3>3. [client[c] EXCEPT !.pc = "done", !.peer = Listen] \in ClientRec(Len(child))
      BY <1>1, <3>2, ClientEnds
    <3>. QED  BY <2>1, <3>1, <3>2, <3>3
  <2>4. inbox' \in [Client -> Seq(1 .. Len(child))]
    BY <1>4, <2>1 DEF TransferEnds, Types
  <2>. QED  BY <1>4, <2>2, <2>3, <2>4, TypesOfFamily DEF TransferEnds, Types
<1>. QED  BY <1>2, <1>3, <1>4

\* Every step keeps the types and the families of children, except for a fork.
LEMMA StepTypes ==
  ASSUME Types, Next
  PROVE  Types' /\ (Fork \/ SameFamily)
BY ClientStepTypes, ForkTypes, ParentStepTypes, SendsTypes, OtherChildStepTypes
   DEF Next, ParentStep, ChildStep

LEMMA StutterTypes ==
  ASSUME Types, UNCHANGED vars
  PROVE  Types'
BY DEF Types, vars, parentVars, sigVars, ClientRec, ChildRec

LEMMA InitTypes == Init => Types
<1>. SUFFICES ASSUME Init PROVE Types
  OBVIOUS
<1>1. child = <<>> /\ requests = <<>> /\ Len(child) = 0
  BY DEF Init
<1>2. client \in [Client -> ClientRec(0)]
  BY HandshakeAssumption DEF Init, Fresh, ClientRec, Listen
<1>3. inbox \in [Client -> Seq(1 .. 0)]
  BY DEF Init
<1>4. child \in Seq(ChildRec) /\ requests \in Seq(Client) /\ connected \subseteq Client
  BY <1>1 DEF Init
<1>5. losses \in 0 .. MaxLoss /\ reuses \in 0 .. MaxReuse
  BY HandshakeAssumption DEF Init
<1>6. client \in [Client -> ClientRec(Len(child))] /\ inbox \in [Client -> Seq(1 .. Len(child))]
  BY <1>1, <1>2, <1>3
<1>7. chldPending \in BOOLEAN /\ inHandler \in BOOLEAN
  BY DEF Init
<1>. QED  BY <1>4, <1>5, <1>6, <1>7 DEF Types

\* Every variable keeps its type, for any number of clients, losses and repetitions:
\* in particular a port number in a client's queue is that of a child.
THEOREM HandshakeTypeCorrect == Spec => []HandshakeTypeOK
<1>1. Init => Types
  BY InitTypes
<1>2. Types /\ [Next]_vars => Types'
  BY StepTypes, StutterTypes
<1>3. Types => HandshakeTypeOK
  BY TypesSuffice
<1>. QED  BY <1>1, <1>2, <1>3, PTL DEF Spec

----------------------------------------------------------------------------
(* One child *)

\* The client of a child is on the parent's list, or was left out because another
\* with its port is there.
Listed ==
  \A k \in Children :
    \/ child[k].of \in connected
    \/ \E d \in connected : d # child[k].of /\ Port(d) = Port(child[k].of)

LEMMA OneChildStep ==
  ASSUME Types, Listed, OneChild, Next
  PROVE  Listed' /\ OneChild'
<1>1. CASE SameFamily
  <2>1. Children' = Children /\ connected' = connected
    BY <1>1 DEF SameFamily, Children
  <2>2. \A i \in Children : child'[i].of = child[i].of
    BY <1>1 DEF SameFamily
  <2>. QED  BY <2>1, <2>2 DEF Listed, OneChild
<1>2. CASE Fork
  <2>. DEFINE c == Head(requests)
              n == Len(child) + 1
  <2>1. /\ c \in Client /\ Len(child') = n /\ child'[n] = NewChild(c)
        /\ \A i \in Children : child'[i] = child[i]
    BY <1>2, ForkTypes
  <2>2. child'[n].of = c
    BY <2>1 DEF NewChild
  <2>3. connected \subseteq connected' /\ c \notin connected
    BY <1>2 DEF Fork, InsertConnected, DuplicateNode
  <2>4. c \in connected' \/ \E d \in connected' : d # c /\ Port(d) = Port(c)
    BY <1>2, <2>3 DEF Fork, InsertConnected
  <2>5. Len(child) \in Nat
    BY DEF Types
  <2>6. Children' = Children \cup {n}
    BY <2>1, <2>5 DEF Children
  <2>. HIDE DEF c, n
  <2>7. Listed'
    <3>1. \A k \in Children :
            \/ child'[k].of \in connected'
            \/ \E d \in connected' : d # child'[k].of /\ Port(d) = Port(child'[k].of)
      BY <2>1, <2>3 DEF Listed
    <3>. QED  BY <2>2, <2>4, <2>6, <3>1 DEF Listed
  <2>8. ASSUME NEW i \in Children, child[i].of = c
        PROVE  \E d \in connected' : d # c /\ Port(d) = Port(c)
    BY <2>3, <2>8 DEF Listed
  <2>9. OneChild'
    <3>. SUFFICES ASSUME NEW i \in Children', NEW k \in Children', i # k,
                         child'[i].of = child'[k].of
                  PROVE  \E d \in connected' : d # child'[k].of /\ Port(d) = Port(child'[k].of)
      BY DEF OneChild
    <3>1. CASE i \in Children /\ k \in Children
      BY <2>1, <2>3, <3>1 DEF OneChild
    <3>2. CASE i = n
      BY <2>1, <2>2, <2>6, <2>8, <3>2
    <3>3. CASE k = n
      BY <2>1, <2>2, <2>6, <2>8, <3>3
    <3>. QED  BY <2>6, <3>1, <3>2, <3>3
  <2>. QED  BY <2>7, <2>9
<1>. QED  BY <1>1, <1>2, StepTypes

\* The parent forks one child for a client however often the request is repeated,
\* except for clients that another host's client with the same port keeps off the
\* parent's list.
THEOREM OneChildPerClient == Spec => []OneChild
<1>. DEFINE Inv == Types /\ Listed /\ OneChild
<1>1. Init => Inv
  BY InitTypes DEF Init, Listed, OneChild, Children
<1>2. Inv /\ [Next]_vars => Inv'
  <2>1. ASSUME Inv, UNCHANGED vars PROVE Inv'
    BY <2>1, StutterTypes DEF Listed, OneChild, Children, vars, parentVars
  <2>. QED  BY <2>1, StepTypes, OneChildStep
<1>3. Inv => OneChild
  OBVIOUS
<1>. QED  BY <1>1, <1>2, <1>3, PTL DEF Spec

----------------------------------------------------------------------------
(* The client listens to the child that transfers *)

\* A child that transfers, or that was sent a window, has the client for itself.
Mutual ==
  \A k \in Children :
    child[k].pc = "transfer" \/ child[k].window =>
      client[child[k].of].pc = "transfer" /\ client[child[k].of].peer = k

\* A port number in the queue of a client is that of a child for this client.
Posted ==
  \A c \in Client : \A i \in 1 .. Len(inbox[c]) : child[inbox[c][i]].of = c

LEMMA PostedKept ==
  ASSUME Types, SameFamily,
         \A c \in Client : \A i \in 1 .. Len(inbox'[c]) :
           inbox'[c][i] \in Children /\ child[inbox'[c][i]].of = c
  PROVE  Posted'
BY DEF Posted, SameFamily

LEMMA PostedSame ==
  ASSUME Types, SameFamily, Posted, inbox' = inbox
  PROVE  Posted'
<1>1. ASSUME NEW c \in Client, NEW i \in 1 .. Len(inbox[c])
      PROVE  inbox[c][i] \in Children
  <2>1. inbox[c] \in Seq(1 .. Len(child))
    BY DEF Types
  <2>. QED  BY <2>1, ElementOfSeq DEF Children
<1>. QED  BY <1>1, PostedKept DEF Posted

\* The queue of one client is emptied.
LEMMA PostedEmptied ==
  ASSUME Types, SameFamily, Posted, NEW c \in Client, inbox' = [inbox EXCEPT ![c] = <<>>]
  PROVE  Posted'
<1>1. ASSUME NEW d \in Client, NEW i \in 1 .. Len(inbox'[d])
      PROVE  inbox'[d][i] \in Children /\ child[inbox'[d][i]].of = d
  <2>1. inbox'[c] = <<>> /\ (d # c => inbox'[d] = inbox[d]) /\ inbox[d] \in Seq(1 .. Len(child))
    BY DEF Types
  <2>2. d # c
    BY <2>1
  <2>. QED  BY <2>1, <2>2, ElementOfSeq DEF Children, Posted
<1>. QED  BY <1>1, PostedKept

\* No child comes to transfer or is sent a window, and no client leaves its transfer.
LEMMA MutualKept ==
  ASSUME Types, Mutual, SameFamily,
         \A i \in Children : child'[i].pc = "transfer" \/ child'[i].window =>
                             child[i].pc = "transfer" \/ child[i].window,
         \A c \in Client : client[c].pc = "transfer" => client'[c] = client[c]
  PROVE  Mutual'
<1>1. Children' = Children
  BY DEF SameFamily, Children
<1>2. ASSUME NEW i \in Children
      PROVE  child[i].of \in Client /\ child'[i].of = child[i].of
  BY ChildRecord DEF SameFamily, Types, ChildRec
<1>. QED  BY <1>1, <1>2 DEF Mutual

LEMMA MutualClient ==
  ASSUME Types, Mutual, Posted, NEW c \in Client, ClientStep(c) \/ Reuse(c)
  PROVE  Mutual' /\ Posted'
<1>0. SameFamily
  BY ClientStepTypes
<1>1. CASE SendRequest(c) \/ SelectTimeout(c) \/ Reuse(c)
  <2>1. \A d \in Client : client[d].pc = "transfer" => client'[d] = client[d]
    BY <1>1 DEF SendRequest, SelectTimeout, Reuse, Types
  <2>2. child' = child
    BY <1>1 DEF SendRequest, SelectTimeout, Reuse
  <2>3. Mutual'
    BY <1>0, <2>1, <2>2, MutualKept
  <2>4. inbox' = inbox \/ inbox' = [inbox EXCEPT ![c] = <<>>]
    BY <1>1 DEF SendRequest, SelectTimeout, Reuse
  <2>. QED  BY <1>0, <2>3, <2>4, PostedSame, PostedEmptied
<1>2. CASE RecvPort(c)
  <2>. DEFINE k == Head(inbox[c])
  <2>1. inbox[c] \in Seq(1 .. Len(child)) /\ inbox[c] # <<>>
    BY <1>2 DEF RecvPort, Types
  <2>2. k = inbox[c][1] /\ k \in Children /\ 1 \in 1 .. Len(inbox[c])
    <3>1. k = inbox[c][1] /\ k \in 1 .. Len(child)
      BY <2>1, HeadTailProperties
    <3>2. Len(inbox[c]) \in Nat /\ Len(inbox[c]) # 0
      BY <2>1, EmptySeq
    <3>. QED  BY <3>1, <3>2 DEF Children
  <2>3. child[k].of = c
    BY <2>2 DEF Posted
  <2>. HIDE DEF k
  <2>4. child[k] \in ChildRec
    BY <2>2, ChildRecord DEF Types
  <2>5. /\ client[c].pc = "select" /\ client \in [Client -> ClientRec(Len(child))]
        /\ client' = [client EXCEPT ![c] = [pc |-> "transfer", peer |-> k, asked |-> 0]]
        /\ child' = child \/ child' = [child EXCEPT ![k] = [child[k] EXCEPT !.window = TRUE]]
        /\ inbox' = [inbox EXCEPT ![c] = Tail(inbox[c])]
    BY <1>2 DEF RecvPort, k, Types
  <2>6. Children' = Children
    BY <1>0 DEF SameFamily, Children
  <2>7. ASSUME NEW i \in Children, i # k
        PROVE  child'[i] = child[i] /\ child[i].of \in Client
    <3>1. [child[k] EXCEPT !.window = TRUE] \in ChildRec
      BY <2>4 DEF ChildRec
    <3>2. child'[i] = child[i]
      BY <2>2, <2>5, <2>7, <3>1, ChildChanges DEF Types
    <3>. QED  BY <3>2, ChildRecord DEF Types, ChildRec
  <2>8. client'[c].pc = "transfer" /\ client'[c].peer = k
        /\ \A d \in Client : d # c => client'[d] = client[d]
    BY <2>5
  <2>9. Mutual'
    <3>. SUFFICES ASSUME NEW i \in Children, child'[i].pc = "transfer" \/ child'[i].window
                  PROVE  client'[child'[i].of].pc = "transfer" /\ client'[child'[i].of].peer = i
      BY <2>6 DEF Mutual
    <3>1. child'[i].of = child[i].of
      BY <1>0 DEF SameFamily
    <3>2. CASE i = k
      BY <2>3, <2>8, <3>1, <3>2
    <3>3. CASE i # k
      <4>1. /\ client[child[i].of].pc = "transfer" /\ client[child[i].of].peer = i
            /\ child[i].of \in Client
        BY <2>7, <3>3 DEF Mutual
      <4>2. child[i].of # c
        BY <2>5, <4>1
      <4>. QED  BY <2>8, <3>1, <4>1, <4>2
    <3>. QED  BY <3>2, <3>3
  <2>10. ASSUME NEW d \in Client, NEW i \in 1 .. Len(inbox'[d])
         PROVE  inbox'[d][i] \in Children /\ child[inbox'[d][i]].of = d
    <3>1. inbox'[c] = Tail(inbox[c]) /\ (d # c => inbox'[d] = inbox[d])
          /\ inbox[d] \in Seq(1 .. Len(child))
      BY <2>5 DEF Types
    <3>2. CASE d = c
      <4>1. Len(Tail(inbox[c])) = Len(inbox[c]) - 1
            /\ \A j \in 1 .. Len(Tail(inbox[c])) : Tail(inbox[c])[j] = inbox[c][j + 1]
        BY <2>1, HeadTailProperties
      <4>2. Len(inbox[c]) \in Nat
        BY <2>1
      <4>3. i \in 1 .. Len(Tail(inbox[c])) /\ inbox'[d][i] = Tail(inbox[c])[i]
        BY <3>1, <3>2
      <4>4. inbox'[d][i] = inbox[c][i + 1]
        BY <4>1, <4>3
      <4>5. i \in 1 .. Len(inbox[c]) - 1
        BY <4>1, <4>3
      <4>6. i + 1 \in 1 .. Len(inbox[c])
        BY <4>2, <4>5
      <4>7. i + 1 \in 1 .. Len(inbox[c]) /\ inbox'[d][i] = inbox[c][i + 1]
        BY <4>4, <4>6
      <4>8. inbox[c][i + 1] \in 1 .. Len(child)
        BY <2>1, <4>7, ElementOfSeq
      <4>. QED  BY <3>2, <4>7, <4>8 DEF Posted, Children
    <3>3. CASE d # c
      BY <3>1, <3>3, ElementOfSeq DEF Children, Posted
    <3>. QED  BY <3>2, <3>3
  <2>. QED  BY <1>0, <2>9, <2>10, PostedKept
<1>. QED  BY <1>1, <1>2 DEF ClientStep

LEMMA MutualFork ==
  ASSUME Types, Mutual, Posted, Fork
  PROVE  Mutual' /\ Posted'
<1>. DEFINE n == Len(child) + 1
<1>1. /\ Head(requests) \in Client /\ Len(child') = n /\ child'[n] = NewChild(Head(requests))
      /\ \A i \in Children : child'[i] = child[i]
  BY ForkTypes
<1>2. child'[n].pc = "start" /\ child'[n].window = FALSE
  BY <1>1 DEF NewChild
<1>3. Children' = Children \cup {n}
  BY <1>1 DEF Children, Types
<1>4. client' = client /\ inbox' = inbox
  BY DEF Fork
<1>. HIDE DEF n
<1>5. Mutual'
  BY <1>1, <1>2, <1>3, <1>4 DEF Mutual
<1>6. ASSUME NEW c \in Client, NEW i \in 1 .. Len(inbox[c])
      PROVE  child'[inbox[c][i]].of = c
  <2>1. inbox[c] \in Seq(1 .. Len(child))
    BY DEF Types
  <2>2. inbox[c][i] \in Children
    BY <2>1, ElementOfSeq DEF Children
  <2>. QED  BY <1>1, <2>2 DEF Posted
<1>. QED  BY <1>4, <1>5, <1>6 DEF Posted

LEMMA MutualParent ==
  ASSUME Types, Mutual, Posted, IgnoreDuplicate \/ CatchChld \/ Reap
  PROVE  Mutual' /\ Posted'
<1>1. SameFamily
  BY ParentStepTypes
<1>2. client' = client /\ inbox' = inbox
  BY DEF IgnoreDuplicate, CatchChld, Reap
<1>3. \A i \in Children : child'[i].pc = "transfer" \/ child'[i].window =>
                          child[i].pc = "transfer" \/ child[i].window
  <2>1. CASE child' = child
    BY <2>1
  <2>2. CASE Reap
    <3>1. PICK k \in Zombies : child' = [child EXCEPT ![k].pc = "reaped"]
      BY <2>2 DEF Reap
    <3>2. k \in Children /\ child[k] \in ChildRec
      BY ChildRecord DEF Zombies, Types
    <3>3. [child[k] EXCEPT !.pc = "reaped"] \in ChildRec
      BY <3>2 DEF ChildRec
    <3>4. \A i \in Children : child'[i] = IF i = k THEN [child[k] EXCEPT !.pc = "reaped"] ELSE child[i]
      BY <3>1, <3>2, <3>3, ChildChanges DEF Types
    <3>. QED  BY <3>2, <3>4 DEF ChildRec
  <2>. QED  BY <2>1, <2>2 DEF IgnoreDuplicate, CatchChld
<1>. QED  BY <1>1, <1>2, <1>3, MutualKept, PostedSame

LEMMA MutualSends ==
  ASSUME Types, Mutual, Posted, NEW k \in Children, SendPort(k) \/ ResendPort(k)
  PROVE  Mutual' /\ Posted'
<1>. DEFINE r == IF SendPort(k) THEN [child[k] EXCEPT !.pc = "await"]
                               ELSE [child[k] EXCEPT !.nrexmt = child[k].nrexmt + 1]
            froms == IF SendPort(k) THEN {Listen} ELSE {Listen, k}
            c == child[k].of
<1>1. child[k] \in ChildRec /\ k \in 1 .. Len(child) /\ Len(child) \in Nat
  BY ChildRecord DEF Types
<1>2. r \in ChildRec /\ r.window = child[k].window /\ r.pc # "transfer"
  BY <1>1, HandshakeAssumption DEF ChildRec, ResendPort
<1>3. /\ child' = [child EXCEPT ![k] = r]
      /\ inbox' = inbox \/ Deliver(c, k, froms)
      /\ client' = client
  BY DEF SendPort, ResendPort
<1>. HIDE DEF r
<1>4. SameFamily
  BY SendsTypes
<1>5. \A i \in Children : child'[i] = IF i = k THEN r ELSE child[i]
  BY <1>2, <1>3, ChildChanges DEF Types
<1>6. Mutual'
  BY <1>2, <1>3, <1>4, <1>5, MutualKept
<1>7. IsFiniteSet(froms)
  <2>1. IsFiniteSet({Listen}) /\ IsFiniteSet({Listen} \cup {k})
    BY FS_Singleton, FS_AddElement
  <2>2. {Listen, k} = {Listen} \cup {k}
    OBVIOUS
  <2>. QED  BY <2>1, <2>2
<1>8. c \in Client
  BY <1>1 DEF ChildRec
<1>. HIDE DEF froms
<1>9. CASE Deliver(c, k, froms)
  <2>0. inbox \in [Client -> Seq(1 .. Len(child))]
    BY DEF Types
  <2>1. /\ inbox' \in [Client -> Seq(1 .. Len(child))]
        /\ \A d \in Client : d # c => inbox'[d] = inbox[d]
        /\ \A i \in 1 .. Len(inbox'[c]) :
             inbox'[c][i] = IF i <= Len(inbox[c]) THEN inbox[c][i] ELSE k
    <3>. HIDE DEF c
    <3>1. ASSUME NEW n \in Nat, inbox \in [Client -> Seq(1 .. n)], k \in 1 .. n
          PROVE  /\ inbox' \in [Client -> Seq(1 .. n)]
                 /\ \A d \in Client : d # c => inbox'[d] = inbox[d]
                 /\ \A i \in 1 .. Len(inbox'[c]) :
                      inbox'[c][i] = IF i <= Len(inbox[c]) THEN inbox[c][i] ELSE k
      BY DeliverType, <1>7, <1>8, <1>9, <3>1
    <3>. QED  BY <1>1, <2>0, <3>1
  <2>2. ASSUME NEW d \in Client, NEW i \in 1 .. Len(inbox'[d])
        PROVE  inbox'[d][i] \in Children /\ child[inbox'[d][i]].of = d
    <3>1. inbox'[d] \in Seq(1 .. Len(child)) /\ Len(inbox[d]) \in Nat
      BY <2>0, <2>1
    <3>2. inbox'[d][i] \in Children
      BY <3>1, ElementOfSeq DEF Children
    <3>3. CASE d # c
      BY <2>1, <3>2, <3>3 DEF Posted
    <3>4. CASE d = c
      <4>1. CASE i <= Len(inbox[c])
        <5>1. i \in 1 .. Len(inbox[c]) /\ inbox'[c][i] = inbox[c][i]
          BY <2>1, <3>1, <3>4, <4>1
        <5>. QED  BY <1>8, <3>2, <3>4, <5>1 DEF Posted
      <4>2. CASE ~ (i <= Len(inbox[c]))
        BY <2>1, <3>2, <3>4, <4>2
      <4>. QED  BY <4>1, <4>2
    <3>. QED  BY <3>3, <3>4
  <2>. QED  BY <1>4, <1>6, <2>2, PostedKept
<1>10. CASE inbox' = inbox
  BY <1>4, <1>6, <1>10, PostedSame
<1>. QED  BY <1>3, <1>9, <1>10

\* The child that ends lets go of its client, and only that.
LEMMA ExitChildren ==
  ASSUME Types, NEW k \in Children, NEW how \in 0 .. MaxNrexmt + 1, Exit(k, how)
  PROVE  \A i \in Children :
           IF i = k THEN child'[i].pc = "zombie" /\ child'[i].window = FALSE
                    ELSE child'[i] = child[i]
<1>. DEFINE r == [child[k] EXCEPT !.pc = "zombie", !.nrexmt = how, !.window = FALSE]
<1>1. child[k] \in ChildRec
  BY ChildRecord DEF Types
<1>2. r \in ChildRec /\ r.pc = "zombie" /\ r.window = FALSE
  BY <1>1 DEF ChildRec
<1>3. child' = [child EXCEPT ![k] = r]
  BY DEF Exit
<1>. HIDE DEF r
<1>4. \A i \in Children : child'[i] = IF i = k THEN r ELSE child[i]
  BY <1>2, <1>3, ChildChanges DEF Types
<1>. QED  BY <1>2, <1>4

\* The window arrives and the file is there.
LEMMA OpenChildren ==
  ASSUME Types, NEW k \in Children,
         child' = [child EXCEPT ![k] = [child[k] EXCEPT !.pc = "transfer", !.window = FALSE]]
  PROVE  \A i \in Children :
           IF i = k THEN child'[i].pc = "transfer" ELSE child'[i] = child[i]
<1>. DEFINE r == [child[k] EXCEPT !.pc = "transfer", !.window = FALSE]
<1>1. child[k] \in ChildRec
  BY ChildRecord DEF Types
<1>2. r \in ChildRec /\ r.pc = "transfer"
  BY <1>1 DEF ChildRec
<1>3. child' = [child EXCEPT ![k] = r]
  OBVIOUS
<1>. HIDE DEF r
<1>4. \A i \in Children : child'[i] = IF i = k THEN r ELSE child[i]
  BY <1>2, <1>3, ChildChanges DEF Types
<1>. QED  BY <1>2, <1>4

LEMMA MutualChild ==
  ASSUME Types, Mutual, Posted, NEW k \in Children,
         GiveUp(k) \/ RecvWindow(k) \/ TransferEnds(k)
  PROVE  Mutual' /\ Posted'
<1>1. SameFamily
  BY OtherChildStepTypes
<1>2. 0 \in 0 .. MaxNrexmt + 1 /\ MaxNrexmt + 1 \in 0 .. MaxNrexmt + 1
  BY HandshakeAssumption
<1>3. CASE GiveUp(k)
  <2>1. Exit(k, MaxNrexmt + 1) /\ client' = client /\ inbox' = inbox
    BY <1>3 DEF GiveUp
  <2>2. \A i \in Children : IF i = k THEN child'[i].pc = "zombie" /\ child'[i].window = FALSE
                                     ELSE child'[i] = child[i]
    BY <1>2, <2>1, ExitChildren
  <2>. QED  BY <1>1, <2>1, <2>2, MutualKept, PostedSame
<1>4. CASE RecvWindow(k)
  <2>1. client' = client /\ inbox' = inbox /\ child[k].window
    BY <1>4 DEF RecvWindow
  <2>2. CASE Exit(k, 0)
    <3>1. \A i \in Children : IF i = k THEN child'[i].pc = "zombie" /\ child'[i].window = FALSE
                                       ELSE child'[i] = child[i]
      BY <1>2, <2>2, ExitChildren
    <3>. QED  BY <1>1, <2>1, <3>1, MutualKept, PostedSame
  <2>3. CASE ~ Exit(k, 0)
    <3>1. child' = [child EXCEPT ![k] = [child[k] EXCEPT !.pc = "transfer", !.window = FALSE]]
      BY <1>4, <2>3 DEF RecvWindow
    <3>2. \A i \in Children : IF i = k THEN child'[i].pc = "transfer" ELSE child'[i] = child[i]
      BY <3>1, OpenChildren
    <3>. QED  BY <1>1, <2>1, <3>2, MutualKept, PostedSame
  <2>. QED  BY <2>2, <2>3
<1>5. CASE TransferEnds(k)
  <2>. DEFINE c == child[k].of
  <2>1. /\ Exit(k, 0) /\ client[c].peer = k
        /\ client' = [client EXCEPT ![c] = [client[c] EXCEPT !.pc = "done", !.peer = Listen]]
        /\ inbox' = [inbox EXCEPT ![c] = <<>>]
    BY <1>5 DEF TransferEnds
  <2>2. \A i \in Children : IF i = k THEN child'[i].pc = "zombie" /\ child'[i].window = FALSE
                                     ELSE child'[i] = child[i]
    BY <1>2, <2>1, ExitChildren
  <2>3. c \in Client /\ client \in [Client -> ClientRec(Len(child))]
    BY ChildRecord DEF Types, ChildRec
  <2>. HIDE DEF c
  <2>4. \A d \in Client : d # c => client'[d] = client[d]
    BY <2>1, <2>3
  <2>5. Children' = Children
    BY <1>1 DEF SameFamily, Children
  <2>6. Mutual'
    <3>. SUFFICES ASSUME NEW i \in Children, child'[i].pc = "transfer" \/ child'[i].window
                  PROVE  client'[child'[i].of].pc = "transfer" /\ client'[child'[i].of].peer = i
      BY <2>5 DEF Mutual
    <3>1. i # k /\ child'[i] = child[i]
      BY <2>2
    <3>2. client[child[i].of].pc = "transfer" /\ client[child[i].of].peer = i
      BY <3>1 DEF Mutual
    <3>3. child[i].of \in Client
      BY ChildRecord DEF Types, ChildRec
    <3>4. child[i].of # c
      BY <2>1, <3>1, <3>2
    <3>. QED  BY <2>4, <3>1, <3>2, <3>3, <3>4
  <2>. QED  BY <1>1, <2>1, <2>3, <2>6, PostedEmptied
<1>. QED  BY <1>3, <1>4, <1>5

\* A child that transfers is the one its client listens to, with any number of
\* children for one client and of port numbers in its queue: because a client takes
\* one port number, and lets no other child know.
THEOREM TransfersAreMutual == Spec => []TransferIsMutual
<1>. DEFINE Inv == Types /\ Mutual /\ Posted
<1>1. Init => Inv
  <2>. SUFFICES ASSUME Init PROVE Inv
    OBVIOUS
  <2>1. Children = {} /\ \A c \in Client : inbox[c] = <<>>
    BY DEF Init, Children
  <2>. QED  BY <2>1, InitTypes DEF Mutual, Posted
<1>2. Inv /\ [Next]_vars => Inv'
  <2>1. ASSUME Inv, UNCHANGED vars PROVE Inv'
    BY <2>1, StutterTypes DEF Mutual, Posted, Children, vars, parentVars
  <2>2. ASSUME Inv, Next PROVE Mutual' /\ Posted'
    BY <2>2, MutualClient, MutualFork, MutualParent, MutualSends, MutualChild
       DEF Next, ParentStep, ChildStep
  <2>. QED  BY <2>1, <2>2, StepTypes
<1>3. Inv => TransferIsMutual
  BY DEF Mutual, TransferIsMutual
<1>. QED  BY <1>1, <1>2, <1>3, PTL DEF Spec

----------------------------------------------------------------------------
(* Children that have ended, and the signals that tell of them *)

LEMMA ZombiesFinite ==
  ASSUME Types
  PROVE  IsFiniteSet(Zombies) /\ Cardinality(Zombies) \in Nat
<1>1. IsFiniteSet(Children)
  BY FS_Interval DEF Types, Children
<1>2. Zombies \subseteq Children
  BY DEF Zombies
<1>. QED  BY <1>1, <1>2, FS_Subset, FS_CardinalityType

LEMMA WaitKept ==
  ASSUME WaitFindsChild, Zombies' = Zombies, UNCHANGED sigVars
  PROVE  WaitFindsChild'
BY DEF WaitFindsChild, sigVars

LEMMA WaitExit ==
  ASSUME Types, WaitFindsChild, NEW k \in Children, NEW how \in 0 .. MaxNrexmt + 1,
         SameFamily, child[k].pc # "zombie", Exit(k, how)
  PROVE  WaitFindsChild'
<1>1. \A i \in Children : IF i = k THEN child'[i].pc = "zombie" /\ child'[i].window = FALSE
                                   ELSE child'[i] = child[i]
  BY ExitChildren
<1>2. Children' = Children
  BY DEF SameFamily, Children
<1>3. Zombies' = Zombies \cup {k} /\ k \notin Zombies
  BY <1>1, <1>2 DEF Zombies
<1>4. Cardinality(Zombies') = Cardinality(Zombies) + 1 /\ Cardinality(Zombies) \in Nat
  BY <1>3, ZombiesFinite, FS_AddElement
<1>5. inHandler' = inHandler
  BY DEF Exit
<1>. QED  BY <1>4, <1>5 DEF WaitFindsChild

LEMMA WaitReap ==
  ASSUME Types, WaitFindsChild, Reap
  PROVE  WaitFindsChild'
<1>1. PICK k \in Zombies : child' = [child EXCEPT ![k].pc = "reaped"]
  BY DEF Reap
<1>. DEFINE r == [child[k] EXCEPT !.pc = "reaped"]
<1>2. k \in Children /\ child[k] \in ChildRec
  BY ChildRecord DEF Zombies, Types
<1>3. r \in ChildRec /\ r.pc = "reaped"
  BY <1>2 DEF ChildRec
<1>4. child' = [child EXCEPT ![k] = r]
  BY <1>1
<1>. HIDE DEF r
<1>5. Children' = Children /\ \A i \in Children : child'[i] = IF i = k THEN r ELSE child[i]
  BY <1>2, <1>3, <1>4, ChildChanges DEF Types
<1>6. Zombies' = Zombies \ {k}
  BY <1>3, <1>5 DEF Zombies
<1>7. Cardinality(Zombies') = Cardinality(Zombies) - 1 /\ Cardinality(Zombies) \in Nat
  BY <1>6, ZombiesFinite, FS_RemoveElement
<1>8. inHandler /\ ~ inHandler' /\ chldPending' = chldPending
  BY DEF Reap
<1>. QED  BY <1>7, <1>8 DEF WaitFindsChild

\* Steps that neither end a child nor wait for one.
LEMMA WaitOther ==
  ASSUME Types, WaitFindsChild,
         \/ \E c \in Client : ClientStep(c) \/ Reuse(c)
         \/ IgnoreDuplicate
         \/ \E k \in Children : SendPort(k) \/ ResendPort(k)
  PROVE  WaitFindsChild'
<1>1. SameFamily /\ UNCHANGED sigVars
  <2>1. SameFamily
    BY ClientStepTypes, ParentStepTypes, SendsTypes
  <2>. QED
    BY <2>1 DEF ClientStep, SendRequest, SelectTimeout, RecvPort, Reuse, IgnoreDuplicate,
                SendPort, ResendPort, parentVars
<1>2. Children' = Children
  BY <1>1 DEF SameFamily, Children
<1>3. \A i \in Children : (child'[i].pc = "zombie") <=> (child[i].pc = "zombie")
  <2>1. CASE child' = child
    BY <2>1
  <2>2. CASE \E c \in Client : RecvPort(c)
    <3>1. PICK c \in Client : RecvPort(c)
      BY <2>2
    <3>. DEFINE k == Head(inbox[c])
                r == [child[k] EXCEPT !.window = TRUE]
    <3>2. k \in Children
      <4>1. inbox[c] \in Seq(1 .. Len(child)) /\ inbox[c] # <<>>
        BY <3>1 DEF RecvPort, Types
      <4>. QED  BY <4>1, HeadTailProperties DEF Children
    <3>3. child' = child \/ child' = [child EXCEPT ![k] = r]
      BY <3>1 DEF RecvPort
    <3>. HIDE DEF k
    <3>4. child[k] \in ChildRec
      BY <3>2, ChildRecord DEF Types
    <3>5. r \in ChildRec /\ r.pc = child[k].pc
      BY <3>4 DEF ChildRec
    <3>. HIDE DEF r
    <3>. QED  BY <2>1, <3>2, <3>3, <3>5, ChildChanges DEF Types
  <2>3. CASE \E k \in Children : SendPort(k) \/ ResendPort(k)
    <3>1. PICK k \in Children : SendPort(k) \/ ResendPort(k)
      BY <2>3
    <3>. DEFINE r == IF SendPort(k) THEN [child[k] EXCEPT !.pc = "await"]
                                   ELSE [child[k] EXCEPT !.nrexmt = child[k].nrexmt + 1]
    <3>2. child[k] \in ChildRec
      BY ChildRecord DEF Types
    <3>3. r \in ChildRec /\ r.pc # "zombie" /\ child[k].pc # "zombie"
      BY <3>1, <3>2, HandshakeAssumption DEF ChildRec, SendPort, ResendPort
    <3>4. child' = [child EXCEPT ![k] = r]
      BY <3>1 DEF SendPort, ResendPort
    <3>. HIDE DEF r
    <3>. QED  BY <3>3, <3>4, ChildChanges DEF Types
  <2>. QED  BY <2>1, <2>2, <2>3 DEF ClientStep, SendRequest, SelectTimeout, Reuse, IgnoreDuplicate
<1>4. Zombies' = Zombies
  BY <1>2, <1>3 DEF Zombies
<1>. QED  BY <1>1, <1>4, WaitKept

LEMMA WaitFork ==
  ASSUME Types, WaitFindsChild, Fork
  PROVE  WaitFindsChild'
<1>. DEFINE n == Len(child) + 1
<1>1. /\ Len(child') = n /\ child'[n] = NewChild(Head(requests))
      /\ \A i \in Children : child'[i] = child[i]
  BY ForkTypes
<1>2. child'[n].pc = "start"
  BY <1>1 DEF NewChild
<1>3. Children' = Children \cup {n}
  BY <1>1 DEF Children, Types
<1>. HIDE DEF n
<1>4. Zombies' = Zombies
  BY <1>1, <1>2, <1>3 DEF Zombies
<1>. QED  BY <1>4, WaitKept DEF Fork

LEMMA WaitChild ==
  ASSUME Types, WaitFindsChild, NEW k \in Children,
         GiveUp(k) \/ RecvWindow(k) \/ TransferEnds(k)
  PROVE  WaitFindsChild'
<1>1. SameFamily
  BY OtherChildStepTypes
<1>2. 0 \in 0 .. MaxNrexmt + 1 /\ MaxNrexmt + 1 \in 0 .. MaxNrexmt + 1
  BY HandshakeAssumption
<1>3. child[k].pc # "zombie"
  BY DEF GiveUp, RecvWindow, TransferEnds
<1>4. CASE Exit(k, 0) \/ Exit(k, MaxNrexmt + 1)
  BY <1>1, <1>2, <1>3, <1>4, WaitExit
<1>5. CASE ~ Exit(k, 0) /\ ~ Exit(k, MaxNrexmt + 1)
  <2>1. /\ child' = [child EXCEPT ![k] = [child[k] EXCEPT !.pc = "transfer", !.window = FALSE]]
        /\ UNCHANGED sigVars
    BY <1>5 DEF GiveUp, RecvWindow, TransferEnds
  <2>2. \A i \in Children : IF i = k THEN child'[i].pc = "transfer" ELSE child'[i] = child[i]
    BY <2>1, OpenChildren
  <2>3. Children' = Children
    BY <1>1 DEF SameFamily, Children
  <2>4. Zombies' = Zombies
    BY <1>3, <2>2, <2>3 DEF Zombies
  <2>. QED  BY <2>1, <2>4, WaitKept
<1>. QED  BY <1>4, <1>5

\* wait() in sig_chld finds a child that has ended, whatever signals are merged: one
\* SIGCHLD stands for one child or for more, never for none.
THEOREM WaitNeverBlocks == Spec => []WaitFindsChild
<1>. DEFINE Inv == Types /\ WaitFindsChild
<1>1. Init => Inv
  <2>. SUFFICES ASSUME Init PROVE Inv
    OBVIOUS
  <2>1. Zombies = {}
    BY DEF Init, Zombies, Children
  <2>2. Cardinality(Zombies) = 0
    BY <2>1, FS_EmptySet
  <2>. QED  BY <2>2, InitTypes DEF Init, WaitFindsChild
<1>2. Inv /\ [Next]_vars => Inv'
  <2>1. ASSUME Inv, UNCHANGED vars PROVE Inv'
    <3>1. Zombies' = Zombies
      BY <2>1 DEF Zombies, Children, vars
    <3>. QED  BY <2>1, <3>1, StutterTypes, WaitKept DEF vars, parentVars
  <2>2. ASSUME Types, WaitFindsChild, CatchChld PROVE WaitFindsChild'
    <3>1. Zombies' = Zombies
      BY <2>2 DEF CatchChld, Zombies, Children
    <3>. QED  BY <2>2, <3>1 DEF CatchChld, WaitFindsChild
  <2>3. ASSUME Inv, Next PROVE WaitFindsChild'
    BY <2>2, <2>3, WaitOther, WaitFork, WaitReap, WaitChild DEF Next, ParentStep, ChildStep
  <2>. QED  BY <2>1, <2>3, StepTypes
<1>3. Inv => WaitFindsChild
  OBVIOUS
<1>. QED  BY <1>1, <1>2, <1>3, PTL DEF Spec
=============================================================================
