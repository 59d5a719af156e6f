---------------------------- MODULE ObjectsProofs ----------------------------
(****************************************************************************)
(* Proofs about the objects of MCObjects: the sockets own their descriptors *)
(* and an open one is complete; the JSON writers stay in step with the text *)
(* and close safely; the regions of lshmem are the lines of the files, and  *)
(* its walk adds up the pages that two processes share.                     *)
(****************************************************************************)
EXTENDS MCObjects, FiniteSetTheorems, SequenceTheorems, FunctionTheorems, WellFoundedInduction, NaturalsInduction, TLAPS

-----------------------------------------------------------------------------
(* Induction, over the least number that fails, and what FoldLeft computes *)

LEMMA Least ==
  ASSUME NEW L, L \subseteq Nat, L # {}
  PROVE  \E n \in L : \A m \in L : ~(m < n)
<1>1. PICK n \in L : \A m \in L : ~ (<<m, n>> \in OpToRel(<, Nat))
  BY NatLessThanWellFounded, WFMin
<1> QED BY <1>1 DEF OpToRel

\* A set of numbers with zero and every successor has all.
LEMMA NatsByInduction ==
  ASSUME NEW G, 0 \in G, \A n \in Nat : n \in G => n + 1 \in G
  PROVE  Nat \subseteq G
<1> SUFFICES ASSUME NEW k \in Nat, k \notin G PROVE FALSE
  OBVIOUS
<1> DEFINE L == {n \in Nat : n \notin G}
<1>1. PICK n \in L : \A m \in L : ~(m < n)
  <2>1. L \subseteq Nat /\ L # {}
    OBVIOUS
  <2> HIDE DEF L
  <2> QED BY <2>1, Least
<1>2. n # 0 /\ n - 1 \in Nat
  OBVIOUS
<1>3. n - 1 \in G
  BY <1>1, <1>2
<1>4. (n - 1) + 1 \in G
  BY <1>2, <1>3
<1> QED BY <1>4

-----------------------------------------------------------------------------
(* UdpSockets: descriptors and their owners *)

Fds == Descriptors \cup {NoFd}

\* What OneOwner says, as four facts.
Owned ==
  /\ \A o \in U!Owners : obj[o].fd # NoFd => kernel[obj[o].fd].open /\ obj[o].fd \notin released
  /\ \A o, p \in U!Owners : obj[o].fd = obj[p].fd /\ obj[o].fd # NoFd => o = p
  /\ \A d \in Descriptors : kernel[d].open /\ d \notin released => \E o \in U!Owners : obj[o].fd = d
  /\ \A d \in released : kernel[d].open

\* open() has done all it promises to do for this udp.
Done(k, u) ==
  u.fd # NoFd =>
    /\ "bound" \in k[u.fd].marks
    /\ "to_multicast" \in k[u.fd].marks => "registered" \in k[u.fd].marks
    /\ "connected" \notin k[u.fd].marks =>
         /\ ("reuse_addr" \in k[u.fd].marks) = u.reuse_addr
         /\ ("reuse_port" \in k[u.fd].marks) = u.reuse_port

AllDone == \A u \in Udps : Done(kernel, obj[u])

SocketInv == U!TypeOK /\ Owned /\ AllDone

LEMMA OneOwnerOf == ASSUME SocketInv PROVE OneOwner
<1>0. NoFd \notin Descriptors
  BY ObjectsAssumption DEF U!SocketsAssumption
<1>1. SUFFICES ASSUME NEW d \in Descriptors
      PROVE  LET owners == {o \in U!Owners : obj[o].fd = d}
             IN  IF kernel[d].open /\ d \notin released THEN \E o \in U!Owners : owners = {o} ELSE owners = {}
  BY DEF OneOwner, U!OneOwner, SocketInv, Owned
<1>2. CASE kernel[d].open /\ d \notin released
  <2>1. PICK o \in U!Owners : obj[o].fd = d
    BY <1>2 DEF SocketInv, Owned
  <2>2. {q \in U!Owners : obj[q].fd = d} = {o}
    BY <1>0, <2>1 DEF SocketInv, Owned
  <2> QED BY <1>2, <2>2
<1>3. CASE ~(kernel[d].open /\ d \notin released)
  <2>1. {q \in U!Owners : obj[q].fd = d} = {}
    BY <1>0, <1>3 DEF SocketInv, Owned
  <2> QED BY <1>3, <2>1
<1> QED BY <1>2, <1>3

LEMMA OpenIsCompleteOf == ASSUME SocketInv PROVE OpenIsComplete
<1> SUFFICES ASSUME NEW u \in Udps, obj[u].fd # NoFd
      PROVE  LET marks == kernel[obj[u].fd].marks
             IN  /\ "bound" \in marks
                 /\ "to_multicast" \in marks => "registered" \in marks
                 /\ "connected" \notin marks =>
                       /\ U!get_reuse(kernel, obj[u], "reuse_addr", FALSE) = obj[u].reuse_addr
                       /\ U!get_reuse(kernel, obj[u], "reuse_port", FALSE) = obj[u].reuse_port
  BY DEF OpenIsComplete, U!OpenIsComplete
<1>1. Done(kernel, obj[u])
  BY DEF SocketInv, AllDone
<1>2. \A mark : U!get_reuse(kernel, obj[u], mark, FALSE) = (mark \in kernel[obj[u].fd].marks)
  BY DEF U!get_reuse
<1>3. ASSUME "connected" \notin kernel[obj[u].fd].marks
      PROVE  /\ U!get_reuse(kernel, obj[u], "reuse_addr", FALSE) = obj[u].reuse_addr
             /\ U!get_reuse(kernel, obj[u], "reuse_port", FALSE) = obj[u].reuse_port
  BY <1>1, <1>2, <1>3, Zenon DEF Done
<1> QED BY <1>1, <1>3 DEF Done

\* What an outcome of a call of o does to the descriptors: those of others stay
\* as they are, at most one is opened, and it is what o then holds; what o held
\* is held on or closed.
Settles(o, r) ==
  /\ r.kernel \in U!Kernel /\ r.fd \in Fds
  /\ \A d \in Descriptors : kernel[d].open /\ d # obj[o].fd => r.kernel[d] = kernel[d]
  /\ \A d \in Descriptors : ~kernel[d].open /\ d # r.fd => ~r.kernel[d].open
  /\ r.fd # NoFd => r.kernel[r.fd].open /\ (r.fd = obj[o].fd \/ ~kernel[r.fd].open)
  /\ obj[o].fd # NoFd /\ r.fd # obj[o].fd => ~r.kernel[obj[o].fd].open

\* A call with such an outcome leaves every descriptor with one owner, and other
\* objects alone.
LEMMA ReturnKeeps ==
  ASSUME SocketInv, NEW o \in U!Owners, NEW r, Settles(o, r), U!Return(o, r)
  PROVE  /\ U!TypeOK' /\ Owned'
         /\ \A p \in Udps \ {o} : Done(kernel', obj'[p])
         /\ kernel' = r.kernel /\ obj'[o] = [obj[o] EXCEPT !.fd = r.fd]
<1>0. NoFd \notin Descriptors /\ Udps \subseteq U!Owners
  BY ObjectsAssumption DEF U!SocketsAssumption, U!Owners
<1>1. /\ kernel \in U!Kernel /\ obj \in [U!Owners -> U!Udp] /\ released \subseteq Descriptors
  BY DEF SocketInv, U!TypeOK
<1>2. kernel' = r.kernel /\ obj' = [obj EXCEPT ![o].fd = r.fd] /\ released' = released
  BY DEF U!Return
<1>3. obj'[o] = [obj[o] EXCEPT !.fd = r.fd] /\ obj'[o].fd = r.fd
  BY <1>1, <1>2 DEF U!Udp
<1>4. \A p \in U!Owners : p # o => obj'[p] = obj[p]
  BY <1>1, <1>2
<1>5. U!TypeOK'
  <2>1. obj'[o] \in U!Udp
    BY <1>1, <1>3 DEF U!Udp, Settles, Fds
  <2> QED BY <1>1, <1>2, <1>3, <1>4, <2>1 DEF U!TypeOK, Settles
<1>6. \A p \in U!Owners : obj[p].fd \in Fds
  BY <1>1 DEF U!Udp, Fds
<1>7. \A p \in U!Owners : p # o /\ obj[p].fd # NoFd =>
        obj[p].fd # obj[o].fd /\ kernel[obj[p].fd].open /\ kernel'[obj[p].fd] = kernel[obj[p].fd]
  BY <1>2, <1>6 DEF SocketInv, Owned, Settles, Fds
<1>8. Owned'
  <2>1. \A p \in U!Owners : obj'[p].fd # NoFd => kernel'[obj'[p].fd].open /\ obj'[p].fd \notin released'
    <3>1. CASE r.fd # NoFd
      BY <1>2, <1>3, <1>4, <1>7, <3>1 DEF SocketInv, Owned, Settles
    <3>2. CASE r.fd = NoFd
      BY <1>2, <1>3, <1>4, <1>7, <3>2 DEF SocketInv, Owned, Settles
    <3> QED BY <3>1, <3>2
  <2>2. \A p, q \in U!Owners : obj'[p].fd = obj'[q].fd /\ obj'[p].fd # NoFd => p = q
    <3>1. \A p \in U!Owners : p # o /\ obj[p].fd # NoFd => obj[p].fd # r.fd
      BY <1>7 DEF SocketInv, Owned, Settles
    <3>2. \A p, q \in U!Owners : obj[p].fd = obj[q].fd /\ obj[p].fd # NoFd => p = q
      BY DEF SocketInv, Owned
    <3>3. SUFFICES ASSUME NEW p \in U!Owners, NEW q \in U!Owners, p # q, obj'[p].fd # NoFd
          PROVE  obj'[p].fd # obj'[q].fd
      OBVIOUS
    <3>4. CASE p = o
      BY <1>3, <1>4, <3>1, <3>3, <3>4
    <3>5. CASE q = o
      BY <1>3, <1>4, <3>1, <3>3, <3>5
    <3>6. CASE p # o /\ q # o
      BY <1>4, <3>2, <3>3, <3>6
    <3> QED BY <3>4, <3>5, <3>6
  <2>3. ASSUME NEW d \in Descriptors, kernel'[d].open, d \notin released'
        PROVE  \E p \in U!Owners : obj'[p].fd = d
    <3>1. CASE d = r.fd
      BY <1>3, <3>1
    <3>2. CASE d # r.fd
      <4>1. kernel[d].open /\ d # obj[o].fd
        BY <1>0, <1>2, <2>3, <3>2 DEF Settles
      <4>2. PICK p \in U!Owners : obj[p].fd = d
        BY <1>2, <2>3, <4>1 DEF SocketInv, Owned
      <4> QED BY <1>4, <4>1, <4>2
    <3> QED BY <3>1, <3>2
  <2>4. \A d \in released' : kernel'[d].open
    <3>1. \A d \in released : d # obj[o].fd
      BY <1>0, <1>1 DEF SocketInv, Owned
    <3> QED BY <1>1, <1>2, <3>1 DEF SocketInv, Owned, Settles
  <2> QED BY <2>1, <2>2, <2>3, <2>4 DEF Owned
<1>9. \A p \in Udps \ {o} : Done(kernel', obj'[p])
  BY <1>0, <1>4, <1>7 DEF SocketInv, AllDone, Done
<1> QED BY <1>2, <1>3, <1>5, <1>8, <1>9

\* What Marked does to the table.
LEMMA MarkedIs ==
  ASSUME NEW k \in U!Kernel, NEW fd \in Descriptors, NEW marks \in SUBSET U!Marks
  PROVE  /\ U!Marked(k, fd, marks) \in U!Kernel
         /\ U!Marked(k, fd, marks)[fd] = [open |-> k[fd].open, marks |-> k[fd].marks \cup (marks \cap Recorded)]
         /\ \A d \in Descriptors : d # fd => U!Marked(k, fd, marks)[d] = k[d]
<1> DEFINE entry == [open |-> k[fd].open, marks |-> k[fd].marks \cup (marks \cap Recorded)]
           Entry == [open : BOOLEAN, marks : SUBSET U!Marks]
<1>1. U!Marked(k, fd, marks) = [k EXCEPT ![fd] = [k[fd] EXCEPT !.marks = k[fd].marks \cup (marks \cap Recorded)]]
  BY DEF U!Marked
<1>2. k[fd] \in Entry
  BY DEF U!Kernel
<1>3. [k[fd] EXCEPT !.marks = k[fd].marks \cup (marks \cap Recorded)] = entry /\ entry \in Entry
  BY <1>2
<1>4. U!Marked(k, fd, marks) = [k EXCEPT ![fd] = entry]
  BY <1>1, <1>3
<1>5. k \in [Descriptors -> Entry] /\ U!Kernel = [Descriptors -> Entry]
  BY DEF U!Kernel
<1> HIDE DEF entry, Entry
<1>6. /\ [k EXCEPT ![fd] = entry] \in [Descriptors -> Entry]
      /\ [k EXCEPT ![fd] = entry][fd] = entry
      /\ \A d \in Descriptors : d # fd => [k EXCEPT ![fd] = entry][d] = k[d]
  BY <1>3, <1>5
<1> QED BY <1>4, <1>5, <1>6 DEF entry

\* The marks that are made on the way, of those that are kept.
LEMMA OpensOne ==
  ASSUME SocketInv, NEW steps \in Seq(U!Marks), NEW r \in U!OpenWith(kernel, steps)
  PROVE  /\ r = U!Outcome(r.kernel, r.fd, r.result) /\ r.kernel \in U!Kernel /\ r.fd \in Fds
         /\ \A d \in Descriptors : kernel[d].open => r.kernel[d] = kernel[d] /\ r.fd # d
         /\ \A d \in Descriptors : ~kernel[d].open /\ d # r.fd => ~r.kernel[d].open
         /\ r.fd # NoFd => r.kernel[r.fd] = [open |-> TRUE,
                                             marks |-> U!MarksOf(steps, Len(steps)) \cap Recorded]
<1>0. NoFd \notin Descriptors
  BY ObjectsAssumption DEF U!SocketsAssumption
<1>1. kernel \in U!Kernel /\ Len(steps) \in Nat
  BY DEF SocketInv, U!TypeOK
<1>2. \A n \in 0 .. Len(steps) : U!MarksOf(steps, n) \subseteq U!Marks
  BY DEF U!MarksOf
<1> DEFINE after(fd, n) == U!Marked(U!Opened(kernel, fd), fd, U!MarksOf(steps, n))
<1>3. ASSUME NEW fd \in Descriptors, NEW n \in 0 .. Len(steps)
      PROVE  /\ after(fd, n) \in U!Kernel
             /\ after(fd, n)[fd] = [open |-> TRUE, marks |-> U!MarksOf(steps, n) \cap Recorded]
             /\ \A d \in Descriptors : d # fd => after(fd, n)[d] = kernel[d]
  <2> DEFINE m == U!MarksOf(steps, n)
  <2>1. m \subseteq U!Marks
    BY <1>2
  <2> HIDE DEF m
  <2>2. /\ U!Opened(kernel, fd) \in U!Kernel
        /\ U!Opened(kernel, fd)[fd] = [open |-> TRUE, marks |-> {}]
        /\ \A d \in Descriptors : d # fd => U!Opened(kernel, fd)[d] = kernel[d]
    BY <1>1 DEF U!Opened, U!Kernel
  <2> DEFINE k == U!Opened(kernel, fd)
  <2> HIDE DEF k
  <2>3. /\ U!Marked(k, fd, m) \in U!Kernel
        /\ U!Marked(k, fd, m)[fd] = [open |-> k[fd].open, marks |-> k[fd].marks \cup (m \cap Recorded)]
        /\ \A d \in Descriptors : d # fd => U!Marked(k, fd, m)[d] = k[d]
    <3>1. k \in U!Kernel /\ m \in SUBSET U!Marks
      BY <2>1, <2>2 DEF k
    <3> QED BY <3>1, MarkedIs, Zenon
  <2>4. k[fd].open = TRUE /\ k[fd].marks \cup (m \cap Recorded) = m \cap Recorded
    BY <2>2 DEF k
  <2> QED BY <2>2, <2>3, <2>4 DEF m, k
<1> DEFINE free == {fd \in Descriptors : ~kernel[fd].open}
<1>4. \/ r = U!Outcome(kernel, NoFd, "errno")
      \/ \E fd \in free, n \in 0 .. Len(steps) - 1 : r = U!Outcome(U!CloseFd(after(fd, n), fd), NoFd, "errno")
      \/ \E fd \in free : r = U!Outcome(after(fd, Len(steps)), fd, "ok")
  BY DEF U!OpenWith
<1>9. r = U!Outcome(r.kernel, r.fd, r.result)
  BY <1>4 DEF U!Outcome
<1> HIDE DEF after
<1>5. CASE r = U!Outcome(kernel, NoFd, "errno")
  BY <1>0, <1>1, <1>5 DEF U!Outcome, Fds
<1>6. ASSUME NEW fd \in free, NEW n \in 0 .. Len(steps) - 1, r = U!Outcome(U!CloseFd(after(fd, n), fd), NoFd, "errno")
      PROVE  /\ r.kernel \in U!Kernel /\ r.fd = NoFd
             /\ \A d \in Descriptors : kernel[d].open => r.kernel[d] = kernel[d]
             /\ \A d \in Descriptors : ~kernel[d].open => ~r.kernel[d].open
  <2>1. n \in 0 .. Len(steps) /\ fd \in Descriptors /\ ~kernel[fd].open /\ fd # NoFd
    BY <1>0, <1>1
  <2>2. r.kernel = [after(fd, n) EXCEPT ![fd] = U!Closed] /\ r.fd = NoFd
    BY <1>6, <2>1 DEF U!Outcome, U!CloseFd
  <2>3. U!Closed \in [open : BOOLEAN, marks : SUBSET U!Marks] /\ ~U!Closed.open
    BY DEF U!Closed
  <2>4. after(fd, n) \in U!Kernel /\ \A d \in Descriptors : d # fd => after(fd, n)[d] = kernel[d]
    BY <1>3, <2>1
  <2> QED BY <2>1, <2>2, <2>3, <2>4 DEF U!Kernel
<1>7. ASSUME NEW fd \in free, r = U!Outcome(after(fd, Len(steps)), fd, "ok")
      PROVE  /\ r.kernel = after(fd, Len(steps)) /\ r.fd = fd
             /\ fd \in Descriptors /\ ~kernel[fd].open /\ fd # NoFd
  BY <1>0, <1>7 DEF U!Outcome
<1>8. CASE \E fd \in free : r = U!Outcome(after(fd, Len(steps)), fd, "ok")
  <2>1. PICK fd \in free : r = U!Outcome(after(fd, Len(steps)), fd, "ok")
    BY <1>8
  <2>2. /\ r.kernel = after(fd, Len(steps)) /\ r.fd = fd
        /\ fd \in Descriptors /\ ~kernel[fd].open /\ fd # NoFd
    BY <1>7, <2>1
  <2>3. Len(steps) \in 0 .. Len(steps)
    BY <1>1
  <2> QED BY <1>3, <1>9, <2>2, <2>3 DEF Fds
<1> QED BY <1>0, <1>4, <1>5, <1>6, <1>8, <1>9 DEF Fds

\* A call on the open socket of o that marks it and nothing else.
LEMMA MarkSettles ==
  ASSUME SocketInv, NEW o \in U!Owners, obj[o].fd # NoFd, NEW marks \in SUBSET U!Marks, NEW result
  PROVE  LET r == U!Outcome(U!Marked(kernel, obj[o].fd, marks), obj[o].fd, result)
         IN  /\ Settles(o, r)
             /\ r.kernel[obj[o].fd].marks = kernel[obj[o].fd].marks \cup (marks \cap Recorded)
<1> DEFINE fd == obj[o].fd
           k == U!Marked(kernel, fd, marks)
<1>1. kernel \in U!Kernel /\ fd \in Descriptors /\ kernel[fd].open
  BY DEF SocketInv, U!TypeOK, U!Udp, Owned
<1>5. /\ k \in U!Kernel /\ k[fd].open = kernel[fd].open
      /\ k[fd].marks = kernel[fd].marks \cup (marks \cap Recorded)
      /\ \A d \in Descriptors : d # fd => k[d] = kernel[d]
  <2>1. /\ U!Marked(kernel, fd, marks) \in U!Kernel
        /\ U!Marked(kernel, fd, marks)[fd] =
             [open |-> kernel[fd].open, marks |-> kernel[fd].marks \cup (marks \cap Recorded)]
        /\ \A d \in Descriptors : d # fd => U!Marked(kernel, fd, marks)[d] = kernel[d]
    <3> HIDE DEF fd
    <3> QED BY <1>1, MarkedIs, Zenon
  <2> QED BY <2>1
<1> HIDE DEF k
<1>6. U!Outcome(k, fd, result).kernel = k /\ U!Outcome(k, fd, result).fd = fd
  BY DEF U!Outcome
<1> HIDE DEF fd
<1>7. Settles(o, U!Outcome(k, fd, result))
  BY <1>1, <1>5, <1>6 DEF Settles, Fds, fd
<1> QED BY <1>5, <1>6, <1>7 DEF k, fd

\* A call that changes nothing.
LEMMA SameSettles ==
  ASSUME SocketInv, NEW o \in U!Owners, NEW result
  PROVE  Settles(o, U!Outcome(kernel, obj[o].fd, result))
<1>1. kernel \in U!Kernel /\ obj[o].fd \in Fds
  BY DEF SocketInv, U!TypeOK, U!Udp, Fds
<1>2. obj[o].fd # NoFd => kernel[obj[o].fd].open
  BY DEF SocketInv, Owned
<1> QED BY <1>1, <1>2 DEF Settles, U!Outcome

\* open() sets the flags of the object, binds and, in its other form, connects:
\* the marks of all that is kept.
Needed == {"bound", "connected", "to_multicast", "registered", "reuse_addr", "reuse_port"}

All(steps) == U!MarksOf(steps, Len(steps))

\* The marks of two sequences one after the other.
LEMMA MarksOfBoth ==
  ASSUME NEW s \in Seq(U!Marks), NEW t \in Seq(U!Marks)
  PROVE  s \o t \in Seq(U!Marks) /\ All(s \o t) = All(s) \cup All(t)
<1>1. Len(s) \in Nat /\ Len(t) \in Nat
  OBVIOUS
<1>2. /\ s \o t \in Seq(U!Marks) /\ Len(s \o t) = Len(s) + Len(t)
      /\ \A i \in 1 .. Len(s) + Len(t) : (s \o t)[i] = IF i <= Len(s) THEN s[i] ELSE t[i - Len(s)]
  BY ConcatProperties
<1>3. ASSUME NEW x \in All(s \o t)
      PROVE  x \in All(s) \cup All(t)
  <2>1. PICK i \in 1 .. Len(s) + Len(t) : x = (s \o t)[i]
    BY <1>2 DEF All, U!MarksOf
  <2>2. CASE i <= Len(s)
    BY <1>1, <1>2, <2>1, <2>2 DEF All, U!MarksOf
  <2>3. CASE i > Len(s)
    <3>1. i - Len(s) \in 1 .. Len(t) /\ x = t[i - Len(s)]
      BY <1>1, <1>2, <2>1, <2>3
    <3> QED BY <3>1 DEF All, U!MarksOf
  <2> QED BY <1>1, <2>1, <2>2, <2>3
<1>4. ASSUME NEW i \in 1 .. Len(s)
      PROVE  s[i] \in All(s \o t)
  <2>1. i \in 1 .. Len(s) + Len(t) /\ (s \o t)[i] = s[i]
    BY <1>1, <1>2
  <2> QED BY <1>2, <2>1 DEF All, U!MarksOf
<1>5. ASSUME NEW i \in 1 .. Len(t)
      PROVE  t[i] \in All(s \o t)
  <2>1. i + Len(s) \in 1 .. Len(s) + Len(t) /\ ~(i + Len(s) <= Len(s)) /\ (i + Len(s)) - Len(s) = i
    BY <1>1
  <2>2. (s \o t)[i + Len(s)] = t[i]
    BY <1>2, <2>1
  <2> QED BY <1>2, <2>1, <2>2 DEF All, U!MarksOf
<1>6. All(s) \cup All(t) \subseteq All(s \o t)
  BY <1>4, <1>5 DEF All, U!MarksOf
<1> QED BY <1>2, <1>3, <1>6

LEMMA BoundMarks ==
  ASSUME NEW u \in U!Udp
  PROVE  /\ U!ReuseSteps(u) \o <<"bound">> \in Seq(U!Marks)
         /\ All(U!ReuseSteps(u) \o <<"bound">>) =
              {"bound"} \cup (IF u.reuse_addr THEN {"reuse_addr"} ELSE {})
                        \cup (IF u.reuse_port THEN {"reuse_port"} ELSE {})
<1> DEFINE a == IF u.reuse_addr THEN <<"reuse_addr">> ELSE <<>>
           p == IF u.reuse_port THEN <<"reuse_port">> ELSE <<>>
           b == <<"bound">>
<1>1. \A x \in U!Marks : <<x>> \in Seq(U!Marks) /\ All(<<x>>) = {x}
  BY DEF All, U!MarksOf
<1>2. <<>> \in Seq(U!Marks) /\ All(<<>>) = {}
  BY DEF All, U!MarksOf
<1>3. /\ a \in Seq(U!Marks) /\ All(a) = IF u.reuse_addr THEN {"reuse_addr"} ELSE {}
      /\ p \in Seq(U!Marks) /\ All(p) = IF u.reuse_port THEN {"reuse_port"} ELSE {}
      /\ b \in Seq(U!Marks) /\ All(b) = {"bound"}
  BY <1>1, <1>2 DEF U!Marks
<1>4. U!ReuseSteps(u) = a \o p
  BY DEF U!ReuseSteps
<1> HIDE DEF a, p, b
<1>5. a \o p \in Seq(U!Marks) /\ All(a \o p) = All(a) \cup All(p)
  BY <1>3, MarksOfBoth
<1>6. (a \o p) \o b \in Seq(U!Marks) /\ All((a \o p) \o b) = All(a \o p) \cup All(b)
  BY <1>3, <1>5, MarksOfBoth
<1>7. U!ReuseSteps(u) \o <<"bound">> = (a \o p) \o b
  BY <1>4 DEF b
<1> QED BY <1>3, <1>5, <1>6, <1>7

LEMMA ConnectedMarks ==
  ASSUME NEW dest
  PROVE  LET steps == IF dest = "multicast" THEN <<"bound", "connected", "to_multicast", "registered">>
                      ELSE <<"bound", "connected">>
         IN  /\ steps \in Seq(U!Marks)
             /\ {"bound", "connected"} \subseteq U!MarksOf(steps, Len(steps))
             /\ "to_multicast" \in U!MarksOf(steps, Len(steps)) => "registered" \in U!MarksOf(steps, Len(steps))
<1>1. CASE dest = "multicast"
  <2> DEFINE steps == <<"bound", "connected", "to_multicast", "registered">>
  <2>1. U!MarksOf(steps, Len(steps)) = {"bound", "connected", "to_multicast", "registered"}
    BY DEF U!MarksOf
  <2> QED BY <1>1, <2>1 DEF U!Marks
<1>2. CASE dest # "multicast"
  <2> DEFINE steps == <<"bound", "connected">>
  <2>1. U!MarksOf(steps, Len(steps)) = {"bound", "connected"}
    BY DEF U!MarksOf
  <2> QED BY <1>2, <2>1 DEF U!Marks
<1> QED BY <1>1, <1>2

\* A call that settles, and leaves a udp as open() promises, keeps the invariant.
LEMMA CallKeeps ==
  ASSUME SocketInv, NEW o \in U!Owners, NEW r, Settles(o, r), U!Return(o, r),
         o \in Udps => Done(r.kernel, [obj[o] EXCEPT !.fd = r.fd])
  PROVE  SocketInv'
<1>1. /\ U!TypeOK' /\ Owned'
      /\ \A p \in Udps \ {o} : Done(kernel', obj'[p])
      /\ kernel' = r.kernel /\ obj'[o] = [obj[o] EXCEPT !.fd = r.fd]
  BY ReturnKeeps
<1>2. o \in Udps => Done(kernel', obj'[o])
  BY <1>1
<1>3. AllDone'
  BY <1>1, <1>2 DEF AllDone, Done
<1> QED BY <1>1, <1>3 DEF SocketInv

\* What fd is once it is set in a udp.
LEMMA WithFd ==
  ASSUME NEW u \in U!Udp, NEW fd
  PROVE  /\ [u EXCEPT !.fd = fd].fd = fd
         /\ [u EXCEPT !.fd = fd].reuse_addr = u.reuse_addr
         /\ [u EXCEPT !.fd = fd].reuse_port = u.reuse_port
BY DEF U!Udp

\* A call that is refused, or asks the kernel for something.
LEMMA SameKeeps ==
  ASSUME SocketInv, NEW o \in U!Owners, NEW result,
         U!Return(o, U!Outcome(kernel, obj[o].fd, result))
  PROVE  SocketInv'
<1> DEFINE r == U!Outcome(kernel, obj[o].fd, result)
<1>1. Settles(o, r)
  BY SameSettles
<1>2. r.kernel = kernel /\ r.fd = obj[o].fd
  BY DEF U!Outcome
<1>3. obj[o] \in U!Udp
  BY DEF SocketInv, U!TypeOK
<1>4. o \in Udps => Done(kernel, [obj[o] EXCEPT !.fd = obj[o].fd])
  BY <1>3 DEF SocketInv, AllDone, U!Udp
<1> QED BY <1>1, <1>2, <1>4, CallKeeps

\* A call that marks the open socket.
LEMMA MarkKeeps ==
  ASSUME SocketInv, Needed \subseteq Recorded, NEW o \in U!Owners, obj[o].fd # NoFd,
         NEW mark \in {"registered", "loopback", "ttl", "sendbuf"}, NEW result,
         U!Return(o, U!Outcome(U!Marked(kernel, obj[o].fd, {mark}), obj[o].fd, result))
  PROVE  SocketInv'
<1> DEFINE k == U!Marked(kernel, obj[o].fd, {mark})
           r == U!Outcome(k, obj[o].fd, result)
<1>1. {mark} \in SUBSET U!Marks
  BY DEF U!Marks
<1>2. Settles(o, r) /\ r.kernel[obj[o].fd].marks = kernel[obj[o].fd].marks \cup ({mark} \cap Recorded)
  BY <1>1, MarkSettles
<1>3. obj[o] \in U!Udp /\ [obj[o] EXCEPT !.fd = obj[o].fd] = obj[o] /\ r.fd = obj[o].fd
  BY DEF SocketInv, U!TypeOK, U!Udp, U!Outcome
<1>4. o \in Udps => Done(r.kernel, obj[o])
  <2> SUFFICES ASSUME o \in Udps PROVE Done(r.kernel, obj[o])
    OBVIOUS
  <2> DEFINE new == r.kernel[obj[o].fd].marks
             old == kernel[obj[o].fd].marks
  <2>1. Done(kernel, obj[o])
    BY DEF SocketInv, AllDone
  <2>2. old \subseteq new /\ \A x \in {"to_multicast", "connected", "reuse_addr", "reuse_port"} : x \in new <=> x \in old
    BY <1>2
  <2>3. /\ "bound" \in old /\ ("to_multicast" \in old => "registered" \in old)
        /\ "connected" \notin old => /\ ("reuse_addr" \in old) = obj[o].reuse_addr
                                     /\ ("reuse_port" \in old) = obj[o].reuse_port
    BY <2>1 DEF Done
  <2>4. obj[o].reuse_addr \in BOOLEAN /\ obj[o].reuse_port \in BOOLEAN
    BY <1>3 DEF U!Udp
  <2> HIDE DEF new, old
  <2>5. /\ "bound" \in new /\ ("to_multicast" \in new => "registered" \in new)
        /\ "connected" \notin new => /\ ("reuse_addr" \in new) = obj[o].reuse_addr
                                     /\ ("reuse_port" \in new) = obj[o].reuse_port
    BY <2>2, <2>3, <2>4
  <2> QED BY <2>5 DEF Done, new
<1>5. o \in Udps => Done(r.kernel, [obj[o] EXCEPT !.fd = r.fd])
  BY <1>3, <1>4
<1> HIDE DEF r
<1> QED BY <1>2, <1>5, CallKeeps DEF r

\* The descriptor that an object lets go is closed, and no other.
LEMMA CloseFdIs ==
  ASSUME NEW k \in U!Kernel, NEW fd \in Fds
  PROVE  /\ U!CloseFd(k, fd) \in U!Kernel
         /\ \A d \in Descriptors : d # fd => U!CloseFd(k, fd)[d] = k[d]
         /\ fd # NoFd => ~U!CloseFd(k, fd)[fd].open
<1>1. U!Closed \in [open : BOOLEAN, marks : SUBSET U!Marks] /\ ~U!Closed.open
  BY DEF U!Closed
<1>2. CASE fd = NoFd
  BY <1>2 DEF U!CloseFd
<1>3. CASE fd # NoFd
  BY <1>1, <1>3 DEF U!CloseFd, U!Kernel, Fds
<1> QED BY <1>2, <1>3

LEMMA AssignFdKeeps == ASSUME SocketInv, NEW f \in Files, U!AssignFd(f) PROVE SocketInv'
<1>0. NoFd \notin Descriptors /\ f \notin Udps /\ f \in U!Owners
  BY ObjectsAssumption DEF U!SocketsAssumption, U!Owners
<1>1. PICK r \in U!OpenWith(kernel, <<>>) : U!Return(f, [r EXCEPT !.kernel = U!CloseFd(r.kernel, obj[f].fd)])
  BY DEF U!AssignFd
<1>2. /\ r = U!Outcome(r.kernel, r.fd, r.result) /\ r.kernel \in U!Kernel /\ r.fd \in Fds
      /\ \A d \in Descriptors : kernel[d].open => r.kernel[d] = kernel[d] /\ r.fd # d
      /\ \A d \in Descriptors : ~kernel[d].open /\ d # r.fd => ~r.kernel[d].open
      /\ r.fd # NoFd => r.kernel[r.fd].open
  <2>1. <<>> \in Seq(U!Marks)
    OBVIOUS
  <2>2. r.fd # NoFd => r.kernel[r.fd] = [open |-> TRUE, marks |-> U!MarksOf(<<>>, Len(<<>>)) \cap Recorded]
    BY <1>1, <2>1, OpensOne, Zenon
  <2>3. r.fd # NoFd => r.kernel[r.fd].open
    BY <2>2
  <2> QED BY <1>1, <2>1, <2>3, OpensOne, Zenon
<1> DEFINE q == [r EXCEPT !.kernel = U!CloseFd(r.kernel, obj[f].fd)]
<1>3. q.kernel = U!CloseFd(r.kernel, obj[f].fd) /\ q.fd = r.fd
  BY <1>2 DEF U!Outcome
<1>4. obj[f].fd \in Fds /\ (obj[f].fd # NoFd => kernel[obj[f].fd].open)
  BY <1>0 DEF SocketInv, U!TypeOK, U!Udp, Fds, Owned
<1>5. /\ q.kernel \in U!Kernel
      /\ \A d \in Descriptors : d # obj[f].fd => q.kernel[d] = r.kernel[d]
      /\ obj[f].fd # NoFd => ~q.kernel[obj[f].fd].open
  BY <1>2, <1>3, <1>4, CloseFdIs
<1>6. U!Return(f, q)
  BY <1>1
<1> HIDE DEF q
<1>7. r.fd # NoFd => r.fd # obj[f].fd /\ ~kernel[r.fd].open
  BY <1>2, <1>4 DEF Fds
<1>8. Settles(f, q)
  <2>1. q.fd # NoFd => q.kernel[q.fd].open /\ (q.fd = obj[f].fd \/ ~kernel[q.fd].open)
    BY <1>2, <1>3, <1>5, <1>7 DEF Fds
  <2>2. \A d \in Descriptors : kernel[d].open /\ d # obj[f].fd => q.kernel[d] = kernel[d]
    BY <1>2, <1>5
  <2>3. \A d \in Descriptors : ~kernel[d].open /\ d # q.fd => ~q.kernel[d].open
    BY <1>0, <1>2, <1>3, <1>5
  <2> QED BY <1>2, <1>3, <1>5, <2>1, <2>2, <2>3 DEF Settles
<1> QED BY <1>0, <1>6, <1>8, CallKeeps

LEMMA CloseKeeps == ASSUME SocketInv, NEW o \in U!Owners, U!Close(o) PROVE SocketInv'
<1>0. NoFd \notin Descriptors
  BY ObjectsAssumption DEF U!SocketsAssumption
<1> DEFINE r == U!Outcome(U!CloseFd(kernel, obj[o].fd), NoFd, "ok")
<1>1. r.kernel = U!CloseFd(kernel, obj[o].fd) /\ r.fd = NoFd /\ U!Return(o, r)
  BY DEF U!Close, U!Outcome
<1>2. obj[o] \in U!Udp /\ obj[o].fd \in Fds /\ kernel \in U!Kernel
  BY DEF SocketInv, U!TypeOK, U!Udp, Fds
<1> HIDE DEF r
<1>3. Settles(o, r)
  <2>1. /\ r.kernel \in U!Kernel
        /\ \A d \in Descriptors : d # obj[o].fd => r.kernel[d] = kernel[d]
        /\ obj[o].fd # NoFd => ~r.kernel[obj[o].fd].open
    BY <1>1, <1>2, CloseFdIs
  <2>2. \A d \in Descriptors : ~kernel[d].open => ~r.kernel[d].open
    BY <1>0, <2>1
  <2> QED BY <1>1, <2>1, <2>2 DEF Settles, Fds
<1>4. Done(r.kernel, [obj[o] EXCEPT !.fd = r.fd])
  BY <1>1, <1>2, WithFd DEF Done
<1> QED BY <1>1, <1>3, <1>4, CallKeeps

LEMMA ResetKeeps == ASSUME SocketInv, NEW f \in Files, U!Reset(f) PROVE SocketInv'
<1>0. NoFd \notin Descriptors /\ f \notin Udps /\ f \in U!Owners /\ Udps \subseteq U!Owners
  BY ObjectsAssumption DEF U!SocketsAssumption, U!Owners
<1>1. /\ kernel \in U!Kernel /\ obj \in [U!Owners -> U!Udp] /\ released \subseteq Descriptors
  BY DEF SocketInv, U!TypeOK
<1>2. /\ kernel' = kernel /\ released' = released \cup ({obj[f].fd} \ {NoFd})
      /\ obj' = [obj EXCEPT ![f].fd = NoFd]
  BY DEF U!Reset
<1>3. obj'[f].fd = NoFd /\ obj'[f] \in U!Udp /\ \A p \in U!Owners : p # f => obj'[p] = obj[p]
  BY <1>0, <1>1, <1>2 DEF U!Udp
<1>4. obj[f].fd \in Fds
  BY <1>0, <1>1 DEF U!Udp, Fds
<1>5. U!TypeOK'
  BY <1>1, <1>2, <1>3, <1>4 DEF U!TypeOK, Fds
<1>6. Owned'
  <2>1. \A p \in U!Owners : obj'[p].fd # NoFd => kernel'[obj'[p].fd].open /\ obj'[p].fd \notin released'
    BY <1>0, <1>2, <1>3 DEF SocketInv, Owned
  <2>2. \A p, q \in U!Owners : obj'[p].fd = obj'[q].fd /\ obj'[p].fd # NoFd => p = q
    BY <1>3 DEF SocketInv, Owned
  <2>3. \A d \in Descriptors : kernel'[d].open /\ d \notin released' => \E o \in U!Owners : obj'[o].fd = d
    BY <1>0, <1>2, <1>3 DEF SocketInv, Owned
  <2>4. \A d \in released' : kernel'[d].open
    BY <1>0, <1>2 DEF SocketInv, Owned
  <2> QED BY <2>1, <2>2, <2>3, <2>4 DEF Owned
<1>7. AllDone'
  BY <1>0, <1>2, <1>3 DEF SocketInv, AllDone, Done
<1> QED BY <1>5, <1>6, <1>7 DEF SocketInv

LEMMA MoveKeeps == ASSUME SocketInv, NEW o \in U!Owners, NEW p \in U!Owners, U!MoveAssign(o, p) PROVE SocketInv'
<1>0. NoFd \notin Descriptors /\ Udps \subseteq U!Owners /\ (o \in Udps <=> p \in Udps)
  <2>1. NoFd \notin Descriptors /\ Udps \subseteq U!Owners /\ \A f \in Files : f \notin Udps
    BY ObjectsAssumption DEF U!SocketsAssumption, U!Owners
  <2>2. {o, p} \subseteq Files \/ {o, p} \subseteq Udps
    BY DEF U!MoveAssign
  <2>3. (o \in Files /\ p \in Files) \/ (o \in Udps /\ p \in Udps)
    BY <2>2
  <2> QED BY <2>1, <2>3
<1>1. /\ kernel \in U!Kernel /\ obj \in [U!Owners -> U!Udp] /\ released \subseteq Descriptors
  BY DEF SocketInv, U!TypeOK
<1> DEFINE r == U!MoveFd(kernel, obj[o].fd, obj[p].fd)
<1>2. /\ kernel' = r.kernel
      /\ obj' = [obj EXCEPT ![o] = [obj[p] EXCEPT !.fd = r.this], ![p].fd = r.other]
      /\ released' = released \cup (IF o = p THEN {obj[o].fd} \ {NoFd} ELSE {})
  BY DEF U!MoveAssign
<1>3. obj[o].fd \in Fds /\ obj[p].fd \in Fds /\ obj[o] \in U!Udp /\ obj[p] \in U!Udp
  BY <1>1 DEF U!Udp, Fds
<1>4. r.other = NoFd /\ r.this = obj[p].fd
  BY DEF U!MoveFd
<1>5. CASE o = p
  <2>1. kernel' = kernel
    BY <1>2, <1>5 DEF U!MoveFd
  <2>2. obj'[o].fd = NoFd /\ obj'[o] \in U!Udp /\ (\A q \in U!Owners : q # o => obj'[q] = obj[q]) /\ DOMAIN obj' = U!Owners
        /\ obj' \in [U!Owners -> U!Udp]
    <3>1. [obj[o] EXCEPT !.fd = obj[o].fd] = obj[o]
      BY <1>3 DEF U!Udp
    <3>2. obj' = [[obj EXCEPT ![o] = obj[o]] EXCEPT ![o].fd = NoFd]
      BY <1>2, <1>4, <1>5, <3>1
    <3>3. [obj EXCEPT ![o] = obj[o]] = obj
      BY <1>1
    <3>4. obj' = [obj EXCEPT ![o].fd = NoFd]
      BY <3>2, <3>3
    <3>5. obj'[o] = [obj[o] EXCEPT !.fd = NoFd] /\ (\A q \in U!Owners : q # o => obj'[q] = obj[q])
      BY <1>1, <3>4
    <3>6. [obj[o] EXCEPT !.fd = NoFd] \in U!Udp /\ [obj[o] EXCEPT !.fd = NoFd].fd = NoFd
      BY <1>3 DEF U!Udp
    <3>7. obj' \in [U!Owners -> U!Udp]
      BY <1>1, <3>4, <3>5, <3>6
    <3> QED BY <3>5, <3>6, <3>7
  <2>3. released' = released \cup ({obj[o].fd} \ {NoFd})
    BY <1>2, <1>5
  <2>4. U!TypeOK'
    BY <1>1, <1>3, <2>1, <2>2, <2>3 DEF U!TypeOK, Fds
  <2>5. Owned'
    <3>1. \A q \in U!Owners : obj'[q].fd # NoFd => kernel'[obj'[q].fd].open /\ obj'[q].fd \notin released'
      BY <2>1, <2>2, <2>3 DEF SocketInv, Owned
    <3>2. \A q, s \in U!Owners : obj'[q].fd = obj'[s].fd /\ obj'[q].fd # NoFd => q = s
      BY <2>2 DEF SocketInv, Owned
    <3>3. \A d \in Descriptors : kernel'[d].open /\ d \notin released' => \E q \in U!Owners : obj'[q].fd = d
      BY <1>0, <2>1, <2>2, <2>3 DEF SocketInv, Owned
    <3>4. \A d \in released' : kernel'[d].open
      BY <2>1, <2>3 DEF SocketInv, Owned
    <3> QED BY <3>1, <3>2, <3>3, <3>4 DEF Owned
  <2>6. AllDone'
    BY <1>0, <2>1, <2>2 DEF SocketInv, AllDone, Done
  <2> QED BY <2>4, <2>5, <2>6 DEF SocketInv
<1>6. CASE o # p
  <2>1. kernel' = U!CloseFd(kernel, obj[o].fd) /\ released' = released
    <3>1. obj[o].fd = obj[p].fd => obj[o].fd = NoFd
      BY <1>6 DEF SocketInv, Owned
    <3> QED BY <1>2, <1>6, <3>1 DEF U!MoveFd, U!CloseFd
  <2>2. /\ obj'[o] = obj[p] /\ obj'[p] = [obj[p] EXCEPT !.fd = NoFd]
        /\ \A q \in U!Owners : q # o /\ q # p => obj'[q] = obj[q]
        /\ obj' \in [U!Owners -> U!Udp] /\ obj'[p].fd = NoFd
    <3>1. [obj[p] EXCEPT !.fd = obj[p].fd] = obj[p]
      BY <1>3 DEF U!Udp
    <3>2. obj' = [[obj EXCEPT ![o] = obj[p]] EXCEPT ![p].fd = NoFd]
      BY <1>2, <1>4, <3>1
    <3>3. [obj[p] EXCEPT !.fd = NoFd] \in U!Udp /\ [obj[p] EXCEPT !.fd = NoFd].fd = NoFd
      BY <1>3 DEF U!Udp
    <3> DEFINE f == [obj EXCEPT ![o] = obj[p]]
    <3>4. f \in [U!Owners -> U!Udp] /\ f[o] = obj[p] /\ \A q \in U!Owners : q # o => f[q] = obj[q]
      BY <1>1, <1>3
    <3>5. f[p] = obj[p]
      BY <1>6, <3>4
    <3> HIDE DEF f
    <3>6. obj' = [f EXCEPT ![p] = [f[p] EXCEPT !.fd = NoFd]]
      BY <3>2 DEF f
    <3>7. obj' \in [U!Owners -> U!Udp] /\ obj'[p] = [obj[p] EXCEPT !.fd = NoFd] /\ \A q \in U!Owners : q # p => obj'[q] = f[q]
      BY <3>3, <3>4, <3>5, <3>6
    <3> QED BY <1>6, <3>3, <3>4, <3>7
  <2>3. /\ kernel' \in U!Kernel
        /\ \A d \in Descriptors : d # obj[o].fd => kernel'[d] = kernel[d]
        /\ obj[o].fd # NoFd => ~kernel'[obj[o].fd].open
    BY <1>1, <1>3, <2>1, CloseFdIs
  <2>4. U!TypeOK'
    BY <1>1, <2>1, <2>2, <2>3 DEF U!TypeOK
  \* What the others and the source hold is not what o held.
  <2>5. \A q \in U!Owners : q # o /\ obj[q].fd # NoFd =>
          obj[q].fd \in Descriptors /\ obj[q].fd # obj[o].fd /\ kernel'[obj[q].fd] = kernel[obj[q].fd]
    <3>1. \A q \in U!Owners : obj[q].fd # NoFd => obj[q].fd \in Descriptors
      BY <1>1 DEF U!Udp
    <3> QED BY <2>3, <3>1 DEF SocketInv, Owned
  <2>6. Owned'
    <3>1. \A q \in U!Owners : obj'[q].fd # NoFd => kernel'[obj'[q].fd].open /\ obj'[q].fd \notin released'
      <4>1. \A q \in U!Owners : obj[q].fd # NoFd => kernel[obj[q].fd].open /\ obj[q].fd \notin released
        BY DEF SocketInv, Owned
      <4> SUFFICES ASSUME NEW q \in U!Owners, obj'[q].fd # NoFd
          PROVE  kernel'[obj'[q].fd].open /\ obj'[q].fd \notin released
        BY <2>1
      <4>2. CASE q = o
        BY <1>6, <2>2, <2>5, <4>1, <4>2
      <4>3. CASE q # o
        <5>1. q # p
          BY <2>2
        <5> QED BY <2>2, <2>5, <4>1, <4>3, <5>1
      <4> QED BY <4>2, <4>3
    <3>2. \A q, s \in U!Owners : obj'[q].fd = obj'[s].fd /\ obj'[q].fd # NoFd => q = s
      <4>1. \A q, s \in U!Owners : obj[q].fd = obj[s].fd /\ obj[q].fd # NoFd => q = s
        BY DEF SocketInv, Owned
      <4> SUFFICES ASSUME NEW q \in U!Owners, NEW s \in U!Owners, q # s, obj'[q].fd # NoFd
          PROVE  obj'[q].fd # obj'[s].fd
        OBVIOUS
      <4>2. obj'[o].fd = obj[p].fd /\ obj'[p].fd = NoFd /\ q # p
        BY <2>2
      <4>3. CASE s = p
        BY <4>2, <4>3
      <4>4. CASE q = o /\ s # p
        BY <2>2, <4>1, <4>2, <4>4
      <4>5. CASE s = o
        <5>1. obj'[q] = obj[q]
          BY <2>2, <4>2, <4>5
        <5> QED BY <4>1, <4>2, <4>5, <5>1
      <4>6. CASE q # o /\ s # o /\ s # p
        <5>1. obj'[q] = obj[q] /\ obj'[s] = obj[s]
          BY <2>2, <4>2, <4>6
        <5> QED BY <4>1, <5>1
      <4> QED BY <4>3, <4>4, <4>5, <4>6
    <3>3. ASSUME NEW d \in Descriptors, kernel'[d].open, d \notin released'
          PROVE  \E q \in U!Owners : obj'[q].fd = d
      <4>1. kernel[d].open /\ d # obj[o].fd /\ d # NoFd
        BY <1>0, <2>3, <3>3
      <4>2. PICK q \in U!Owners : obj[q].fd = d
        BY <2>1, <3>3, <4>1 DEF SocketInv, Owned
      <4>3. CASE q = p
        BY <2>2, <4>2, <4>3
      <4>4. CASE q # p
        BY <2>2, <4>1, <4>2, <4>4
      <4> QED BY <4>3, <4>4
    <3>4. \A d \in released' : kernel'[d].open
      <4>1. \A d \in released : d # obj[o].fd
        BY <1>0, <1>1 DEF SocketInv, Owned
      <4> QED BY <1>1, <2>1, <2>3, <4>1 DEF SocketInv, Owned
    <3> QED BY <3>1, <3>2, <3>3, <3>4 DEF Owned
  <2>7. AllDone'
    <3> SUFFICES ASSUME NEW u \in Udps PROVE Done(kernel', obj'[u])
      BY DEF AllDone, Done
    <3>1. CASE u = o
      <4>1. Done(kernel, obj[p]) /\ obj'[u] = obj[p]
        BY <1>0, <2>2, <3>1 DEF SocketInv, AllDone
      <4>2. obj[p].fd # NoFd => kernel'[obj[p].fd] = kernel[obj[p].fd]
        BY <1>6, <2>5
      <4> QED BY <4>1, <4>2 DEF Done
    <3>2. CASE u = p
      BY <2>2, <3>2 DEF Done
    <3>3. CASE u # o /\ u # p
      <4>1. Done(kernel, obj[u]) /\ obj'[u] = obj[u]
        BY <1>0, <2>2, <3>3 DEF SocketInv, AllDone
      <4>2. obj[u].fd # NoFd => kernel'[obj[u].fd] = kernel[obj[u].fd]
        BY <1>0, <2>5, <3>3
      <4> QED BY <4>1, <4>2 DEF Done
    <3> QED BY <3>1, <3>2, <3>3
  <2> QED BY <2>4, <2>6, <2>7 DEF SocketInv
<1> QED BY <1>5, <1>6

\* A call that opens the closed socket of a udp with the marks of what open()
\* promises.
LEMMA OpenKeeps ==
  ASSUME SocketInv, NEW u \in Udps, obj[u].fd = NoFd,
         NEW steps \in Seq(U!Marks), NEW r \in U!OpenWith(kernel, steps), U!Return(u, r),
         /\ "bound" \in All(steps) \cap Recorded
         /\ "to_multicast" \in All(steps) \cap Recorded => "registered" \in All(steps) \cap Recorded
         /\ "connected" \notin All(steps) \cap Recorded =>
              /\ "reuse_addr" \in All(steps) \cap Recorded <=> obj[u].reuse_addr
              /\ "reuse_port" \in All(steps) \cap Recorded <=> obj[u].reuse_port
  PROVE  SocketInv'
<1>0. u \in U!Owners /\ NoFd \notin Descriptors
  BY ObjectsAssumption DEF U!Owners, U!SocketsAssumption
<1>1. obj[u] \in U!Udp
  BY <1>0 DEF SocketInv, U!TypeOK
<1>2. /\ r.kernel \in U!Kernel /\ r.fd \in Fds
      /\ \A d \in Descriptors : kernel[d].open => r.kernel[d] = kernel[d] /\ r.fd # d
      /\ \A d \in Descriptors : ~kernel[d].open /\ d # r.fd => ~r.kernel[d].open
      /\ r.fd # NoFd => r.kernel[r.fd] = [open |-> TRUE, marks |-> All(steps) \cap Recorded]
  BY OpensOne DEF All
<1>3. Settles(u, r)
  BY <1>0, <1>2 DEF Settles, Fds
<1>4. Done(r.kernel, [obj[u] EXCEPT !.fd = r.fd])
  <2> DEFINE new == [obj[u] EXCEPT !.fd = r.fd]
             marks == All(steps) \cap Recorded
  <2>1. new.fd = r.fd /\ new.reuse_addr = obj[u].reuse_addr /\ new.reuse_port = obj[u].reuse_port
    BY <1>1, WithFd
  <2>2. obj[u].reuse_addr \in BOOLEAN /\ obj[u].reuse_port \in BOOLEAN
    BY <1>1 DEF U!Udp
  <2>3. r.fd # NoFd => r.kernel[r.fd].marks = marks
    BY <1>2
  <2>4. /\ "bound" \in marks /\ ("to_multicast" \in marks => "registered" \in marks)
        /\ "connected" \notin marks => /\ ("reuse_addr" \in marks) = obj[u].reuse_addr
                                       /\ ("reuse_port" \in marks) = obj[u].reuse_port
    BY <2>2
  <2> HIDE DEF new, marks
  <2> QED BY <2>1, <2>3, <2>4 DEF Done, new
<1> QED BY <1>0, <1>3, <1>4, CallKeeps

\* A call that is refused.
LEMMA RefusedKeeps ==
  ASSUME SocketInv, NEW u \in Udps, NEW r \in U!Refused(kernel, obj[u]), U!Return(u, r)
  PROVE  SocketInv'
<1>1. r = U!Outcome(kernel, obj[u].fd, "einval")
  BY DEF U!Refused
<1>2. u \in U!Owners /\ U!Return(u, U!Outcome(kernel, obj[u].fd, "einval"))
  BY <1>1 DEF U!Owners
<1> QED BY <1>2, SameKeeps

LEMMA OpenBoundKeeps ==
  ASSUME SocketInv, Needed \subseteq Recorded, NEW u \in Udps, NEW bind, U!Open(u, bind)
  PROVE  SocketInv'
<1>1. PICK r \in U!OpenBound(kernel, obj[u], bind) : U!Return(u, r)
  BY DEF U!Open
<1>2. CASE obj[u].fd # NoFd \/ ~U!is_valid_bind_addr(bind)
  BY <1>1, <1>2, RefusedKeeps DEF U!OpenBound
<1>3. CASE obj[u].fd = NoFd /\ U!is_valid_bind_addr(bind)
  <2> DEFINE steps == U!ReuseSteps(obj[u]) \o <<"bound">>
  <2>1. r \in U!OpenWith(kernel, steps)
    BY <1>1, <1>3 DEF U!OpenBound
  <2>2. obj[u] \in U!Udp
    BY DEF SocketInv, U!TypeOK, U!Owners
  <2>3. /\ steps \in Seq(U!Marks)
        /\ All(steps) = {"bound"} \cup (IF obj[u].reuse_addr THEN {"reuse_addr"} ELSE {})
                                  \cup (IF obj[u].reuse_port THEN {"reuse_port"} ELSE {})
    BY <2>2, BoundMarks
  <2> HIDE DEF steps
  <2>4. /\ "bound" \in All(steps) \cap Recorded /\ "to_multicast" \notin All(steps) \cap Recorded
        /\ "reuse_addr" \in All(steps) \cap Recorded <=> obj[u].reuse_addr
        /\ "reuse_port" \in All(steps) \cap Recorded <=> obj[u].reuse_port
    BY <2>3 DEF Needed
  <2> QED BY <1>1, <1>3, <2>1, <2>3, <2>4, OpenKeeps
<1> QED BY <1>2, <1>3

LEMMA OpenDestKeeps ==
  ASSUME SocketInv, Needed \subseteq Recorded, NEW u \in Udps, NEW bind, NEW dest, U!OpenDest(u, bind, dest)
  PROVE  SocketInv'
<1>1. PICK r \in U!OpenConnected(kernel, obj[u], bind, dest) : U!Return(u, r)
  BY DEF U!OpenDest
<1> DEFINE refused == obj[u].fd # NoFd \/ ~U!is_valid_bind_addr(bind) \/ ~U!is_valid_sockaddr(dest)
<1>2. CASE refused
  BY <1>1, <1>2, RefusedKeeps DEF U!OpenConnected
<1>3. CASE ~refused
  <2> DEFINE steps == IF dest = "multicast" THEN <<"bound", "connected", "to_multicast", "registered">>
                      ELSE <<"bound", "connected">>
  <2>1. r \in U!OpenWith(kernel, steps)
    BY <1>1, <1>3 DEF U!OpenConnected
  <2>2. /\ steps \in Seq(U!Marks) /\ {"bound", "connected"} \subseteq All(steps)
        /\ "to_multicast" \in All(steps) => "registered" \in All(steps)
    BY ConnectedMarks DEF All
  <2> HIDE DEF steps
  <2>3. /\ "bound" \in All(steps) \cap Recorded /\ "connected" \in All(steps) \cap Recorded
        /\ "to_multicast" \in All(steps) \cap Recorded => "registered" \in All(steps) \cap Recorded
    BY <2>2 DEF Needed
  <2> QED BY <1>1, <1>3, <2>1, <2>2, <2>3, OpenKeeps
<1> QED BY <1>2, <1>3

\* The flags for reuse change while the socket is closed, where they promise
\* nothing yet.
LEMMA SetReuseKeeps ==
  ASSUME SocketInv, NEW u \in Udps, NEW new \in U!Udp, new.fd = obj[u].fd, U!SetReuse(u, new)
  PROVE  SocketInv'
<1>0. u \in U!Owners
  BY DEF U!Owners
<1>1. CASE obj[u].fd # NoFd
  BY <1>0, <1>1, SameKeeps DEF U!SetReuse
<1>2. CASE obj[u].fd = NoFd
  <2>1. obj' = [obj EXCEPT ![u] = new] /\ kernel' = kernel /\ released' = released
    BY <1>2 DEF U!SetReuse
  <2>2. obj \in [U!Owners -> U!Udp]
    BY DEF SocketInv, U!TypeOK
  <2>3. obj' \in [U!Owners -> U!Udp] /\ obj'[u] = new /\ \A p \in U!Owners : p # u => obj'[p] = obj[p]
    BY <1>0, <2>1, <2>2
  <2>4. \A p \in U!Owners : obj'[p].fd = obj[p].fd
    BY <2>3
  <2>5. U!TypeOK'
    BY <2>1, <2>3 DEF SocketInv, U!TypeOK
  <2>6. Owned'
    BY <2>1, <2>4 DEF SocketInv, Owned
  <2>7. AllDone'
    <3> SUFFICES ASSUME NEW p \in Udps PROVE Done(kernel', obj'[p])
      BY DEF AllDone, Done
    <3>1. CASE p = u
      BY <1>2, <2>3, <3>1 DEF Done
    <3>2. CASE p # u
      BY <2>1, <2>3, <3>2 DEF SocketInv, AllDone, U!Owners
    <3> QED BY <3>1, <3>2
  <2> QED BY <2>5, <2>6, <2>7 DEF SocketInv
<1> QED BY <1>1, <1>2

\* A setter marks the socket, fails or is refused.
LEMMA SetOptionKeeps ==
  ASSUME SocketInv, Needed \subseteq Recorded, NEW u \in Udps,
         NEW mark \in {"registered", "loopback", "ttl", "sendbuf"}, NEW valid,
         NEW r \in U!SetOption(kernel, obj[u], mark, valid), U!Return(u, r)
  PROVE  SocketInv'
<1>0. u \in U!Owners
  BY DEF U!Owners
<1>1. CASE obj[u].fd = NoFd \/ ~valid
  BY <1>1, RefusedKeeps DEF U!SetOption
<1>2. CASE obj[u].fd # NoFd /\ valid
  <2>1. \/ r = U!Outcome(U!Marked(kernel, obj[u].fd, {mark}), obj[u].fd, "ok")
        \/ r = U!Outcome(kernel, obj[u].fd, "errno")
    BY <1>2 DEF U!SetOption
  <2>2. CASE r = U!Outcome(U!Marked(kernel, obj[u].fd, {mark}), obj[u].fd, "ok")
    BY <1>0, <1>2, <2>2, MarkKeeps
  <2>3. CASE r = U!Outcome(kernel, obj[u].fd, "errno")
    BY <1>0, <2>3, SameKeeps
  <2> QED BY <2>1, <2>2, <2>3
<1> QED BY <1>1, <1>2

LEMMA SetKeeps ==
  ASSUME SocketInv, Needed \subseteq Recorded, NEW u \in Udps, NEW n, NEW addr, U!Set(u, n, addr)
  PROVE  SocketInv'
<1>1. PICK r \in U!set_sendbuf(kernel, obj[u], n) \cup U!set_multicast_ttl(kernel, obj[u], n)
                 \cup U!set_multicast_loopback(kernel, obj[u])
                 \cup U!multicast_register_interface(kernel, obj[u], addr) : U!Return(u, r)
  BY DEF U!Set
<1>2. CASE r \in U!set_sendbuf(kernel, obj[u], n)
  BY <1>1, <1>2, SetOptionKeeps DEF U!set_sendbuf
<1>3. CASE r \in U!set_multicast_ttl(kernel, obj[u], n)
  BY <1>1, <1>3, SetOptionKeeps DEF U!set_multicast_ttl
<1>4. CASE r \in U!set_multicast_loopback(kernel, obj[u])
  BY <1>1, <1>4, SetOptionKeeps DEF U!set_multicast_loopback
<1>5. CASE r \in U!multicast_register_interface(kernel, obj[u], addr)
  BY <1>1, <1>5, SetOptionKeeps DEF U!multicast_register_interface
<1> QED BY <1>1, <1>2, <1>3, <1>4, <1>5

\* Getters and senders change nothing.
LEMMA AskKeeps ==
  ASSUME SocketInv, NEW u \in Udps, NEW addr, U!Get(u) \/ U!SendPacket(u, addr)
  PROVE  SocketInv'
<1>0. u \in U!Owners
  BY DEF U!Owners
<1>1. PICK r \in U!GetOption(kernel, obj[u]) \cup U!ipv4hdr_length(kernel, obj[u])
                 \cup U!Send(kernel, obj[u]) \cup U!SendTo(kernel, obj[u], addr) : U!Return(u, r)
  BY DEF U!Get, U!SendPacket
<1>2. \E result : r = U!Outcome(kernel, obj[u].fd, result)
  BY <1>1 DEF U!GetOption, U!ipv4hdr_length, U!Send, U!SendTo, U!Refused
<1> QED BY <1>0, <1>1, <1>2, SameKeeps


LEMMA SocketsKeep == ASSUME SocketInv, Needed \subseteq Recorded, U!Next PROVE SocketInv'
<1>1. ASSUME NEW f \in Files, U!AssignFd(f) \/ U!Reset(f) PROVE SocketInv'
  BY <1>1, AssignFdKeeps, ResetKeeps
<1>2. ASSUME NEW o \in U!Owners, U!Close(o) PROVE SocketInv'
  BY <1>2, CloseKeeps
<1>3. ASSUME NEW o \in U!Owners, NEW p \in U!Owners, U!MoveAssign(o, p) PROVE SocketInv'
  BY <1>3, MoveKeeps
<1>4. ASSUME NEW u \in Udps, NEW bind, U!Open(u, bind) PROVE SocketInv'
  BY <1>4, OpenBoundKeeps
<1>5. ASSUME NEW u \in Udps, NEW bind, NEW dest, U!OpenDest(u, bind, dest) PROVE SocketInv'
  BY <1>5, OpenDestKeeps
<1>6. ASSUME NEW u \in Udps, NEW enable \in BOOLEAN, U!SetReuseAddr(u, enable) \/ U!SetReusePort(u, enable)
      PROVE  SocketInv'
  <2> DEFINE a == [obj[u] EXCEPT !.reuse_addr = enable]
             p == [obj[u] EXCEPT !.reuse_port = enable]
  <2>1. obj[u] \in U!Udp
    BY DEF SocketInv, U!TypeOK, U!Owners
  <2>2. a \in U!Udp /\ a.fd = obj[u].fd /\ p \in U!Udp /\ p.fd = obj[u].fd
    BY <2>1 DEF U!Udp
  <2>3. U!SetReuse(u, a) \/ U!SetReuse(u, p)
    BY <1>6 DEF U!SetReuseAddr, U!SetReusePort
  <2> HIDE DEF a, p
  <2> QED BY <2>2, <2>3, SetReuseKeeps
<1>7. ASSUME NEW u \in Udps, NEW addr, U!SendPacket(u, addr) \/ U!Get(u) PROVE SocketInv'
  BY <1>7, AskKeeps
<1>8. ASSUME NEW u \in Udps, NEW addr, NEW n, U!Set(u, n, addr) PROVE SocketInv'
  BY <1>8, SetKeeps
<1> QED BY <1>1, <1>2, <1>3, <1>4, <1>5, <1>6, <1>7, <1>8 DEF U!Next

LEMMA SocketsStart == OInit => SocketInv
<1> SUFFICES ASSUME OInit PROVE SocketInv
  OBVIOUS
<1>0. NoFd \notin Descriptors
  BY ObjectsAssumption DEF U!SocketsAssumption
<1>1. /\ kernel = [d \in Descriptors |-> U!Closed] /\ obj = [o \in U!Owners |-> U!NewUdp] /\ released = {}
  BY DEF OInit, U!Init
<1>2. U!Closed = [open |-> FALSE, marks |-> {}] /\ U!NewUdp \in U!Udp /\ U!NewUdp.fd = NoFd
  BY DEF U!Closed, U!NewUdp, U!Udp
<1>3. U!TypeOK
  BY <1>1, <1>2 DEF U!TypeOK, U!Kernel
<1>4. Owned /\ AllDone
  BY <1>0, <1>1, <1>2 DEF Owned, AllDone, Done, U!Owners
<1> QED BY <1>3, <1>4 DEF SocketInv

LEMMA SocketInvariant == ASSUME Needed \subseteq Recorded PROVE OSpec => []SocketInv
<1>1. OInit => SocketInv
  BY SocketsStart
<1>2. SocketInv /\ [ONext]_objectVars => SocketInv'
  <2> SUFFICES ASSUME SocketInv, [ONext]_objectVars PROVE SocketInv'
    OBVIOUS
  <2>1. CASE UNCHANGED socketVars
    BY <2>1 DEF socketVars, SocketInv, U!TypeOK, Owned, AllDone, Done
  <2>2. CASE U!Next
    BY <2>2, SocketsKeep
  <2> QED BY <2>1, <2>2 DEF ONext, objectVars
<1> QED BY <1>1, <1>2, PTL DEF OSpec

\* Every open descriptor has one owner that will close it, and no owner holds
\* one that was closed, after any calls of fdesc and udp whose steps may fail
\* (UdpSockets!OneOwner).
THEOREM DescriptorsOwned == ASSUME Needed \subseteq Recorded PROVE OSpec => []OneOwner
BY SocketInvariant, OneOwnerOf, PTL

\* A udp object is open only when all that its open() promises was done on the
\* socket (UdpSockets!OpenIsComplete).
THEOREM OpenSocketsComplete == ASSUME Needed \subseteq Recorded PROVE OSpec => []OpenIsComplete
BY SocketInvariant, OpenIsCompleteOf, PTL


\* The recursion of FoldLeft, over the first n tokens of t.
Greatest(S) == CHOOSE x \in S : \A y \in S : x >= y
Reads(g, t, n) ==
  g = [S \in SUBSET (1 .. n) |->
         IF S = {} THEN J!Start
         ELSE J!Read(g[S \ {Greatest(S)}], t[Greatest(S)])]

\* Reading is this function, applied.
LEMMA ReadingIsReads ==
  ASSUME NEW t, NEW n, DOMAIN t = 1 .. n
  PROVE  J!Reading(t) = (CHOOSE g : Reads(g, t, n))[1 .. n]
BY DEF J!Reading, J!FoldLeft, J!MapThenFoldSet, J!Max, Reads, Greatest

LEMMA GreatestIs ==
  ASSUME NEW n \in Nat, NEW S \in SUBSET (1 .. n + 1), n + 1 \in S
  PROVE  Greatest(S) = n + 1 /\ S \ {Greatest(S)} \in SUBSET (1 .. n)
<1>1. \E x \in S : \A y \in S : x >= y
  OBVIOUS
<1>2. Greatest(S) \in S /\ \A y \in S : Greatest(S) >= y
  BY <1>1, Zenon DEF Greatest
<1> DEFINE x == Greatest(S)
<1>3. x \in 1 .. n + 1 /\ x >= n + 1
  BY <1>2
<1> HIDE DEF x
<1>4. x = n + 1
  BY <1>3
<1> QED BY <1>4 DEF x

\* There is such a function for every length, and two of them agree on what
\* both have read.
LEMMA ReadsExists == ASSUME NEW t, NEW n \in Nat PROVE \E g : Reads(g, t, n)
<1> DEFINE G == {m \in Nat : \E g : Reads(g, t, m)}
<1>1. 0 \in G
  <2> DEFINE g == [S \in SUBSET (1 .. 0) |-> J!Start]
             h == [S \in SUBSET (1 .. 0) |-> IF S = {} THEN J!Start
                                             ELSE J!Read(g[S \ {Greatest(S)}], t[Greatest(S)])]
  <2>1. \A S \in SUBSET (1 .. 0) : S = {}
    OBVIOUS
  <2>2. \A S \in SUBSET (1 .. 0) : g[S] = h[S]
    BY <2>1
  <2>3. g = h
    BY <2>2
  <2>4. Reads(g, t, 0)
    BY <2>3 DEF Reads
  <2> HIDE DEF g
  <2> QED BY <2>4
<1>2. ASSUME NEW m \in Nat, m \in G
      PROVE  m + 1 \in G
  <2>1. PICK g : Reads(g, t, m)
    BY <1>2
  <2> DEFINE D == SUBSET (1 .. m + 1)
             H(S) == IF m + 1 \notin S THEN g[S] ELSE J!Read(g[S \ {m + 1}], t[m + 1])
             h == [S \in D |-> H(S)]
             K(S) == IF S = {} THEN J!Start ELSE J!Read(h[S \ {Greatest(S)}], t[Greatest(S)])
             k == [S \in D |-> K(S)]
  <2>2. ASSUME NEW S \in D
        PROVE  h[S] = k[S]
    <3>1. CASE m + 1 \in S
      <4>1. Greatest(S) = m + 1 /\ S \ {m + 1} \in SUBSET (1 .. m) /\ S \ {m + 1} \in D
        BY <3>1, GreatestIs
      <4>2. h[S \ {m + 1}] = g[S \ {m + 1}]
        BY <4>1
      <4> QED BY <3>1, <4>1, <4>2
    <3>2. CASE m + 1 \notin S
      <4>1. S \in SUBSET (1 .. m)
        BY <3>2
      <4>2. h[S] = g[S]
        BY <3>2
      <4>3. CASE S = {}
        BY <2>1, <4>1, <4>2, <4>3 DEF Reads
      <4>4. CASE S # {}
        <5>1. Greatest(S) \in S \/ S \ {Greatest(S)} = S
          OBVIOUS
        <5>2. S \ {Greatest(S)} \in D /\ m + 1 \notin S \ {Greatest(S)}
          BY <3>2
        <5>3. h[S \ {Greatest(S)}] = g[S \ {Greatest(S)}]
          BY <5>2
        <5>4. g[S] = J!Read(g[S \ {Greatest(S)}], t[Greatest(S)])
          BY <2>1, <4>1, <4>4 DEF Reads
        <5>5. k[S] = J!Read(h[S \ {Greatest(S)}], t[Greatest(S)])
          BY <4>4
        <5> QED BY <4>2, <5>3, <5>4, <5>5
      <4> QED BY <4>3, <4>4
    <3> QED BY <3>1, <3>2
  <2>3. h = k
    <3>1. \A S \in D : H(S) = K(S)
      BY <2>2
    <3> HIDE DEF D, H, K
    <3> QED BY <3>1
  <2>4. Reads(h, t, m + 1)
    BY <2>3 DEF Reads
  <2> HIDE DEF h
  <2> QED BY <2>4
<1>3. Nat \subseteq G
  <2> HIDE DEF G
  <2> QED BY <1>1, <1>2, NatsByInduction
<1> QED BY <1>3

LEMMA ReadsAgree ==
  ASSUME NEW s, NEW t, NEW n \in Nat, NEW m \in Nat, n <= m, \A i \in 1 .. n : s[i] = t[i],
         NEW g, Reads(g, s, n), NEW h, Reads(h, t, m)
  PROVE  g[1 .. n] = h[1 .. n]
<1> DEFINE G == {i \in Nat : i <= n => g[1 .. i] = h[1 .. i]}
<1>1. 0 \in G
  <2>1. (1 .. 0) = {}
    OBVIOUS
  <2> QED BY <2>1 DEF Reads
<1>2. ASSUME NEW i \in Nat, i \in G
      PROVE  i + 1 \in G
  <2> SUFFICES ASSUME i + 1 <= n PROVE g[1 .. i + 1] = h[1 .. i + 1]
    OBVIOUS
  <2> DEFINE S == 1 .. i + 1
  <2>1. Greatest(S) = i + 1
    <3>1. S \in SUBSET (1 .. i + 1) /\ i + 1 \in S
      OBVIOUS
    <3> QED BY <3>1, GreatestIs, Zenon
  <2>2. S \ {i + 1} = 1 .. i /\ S # {} /\ S \in SUBSET (1 .. n) /\ S \in SUBSET (1 .. m)
    OBVIOUS
  <2> HIDE DEF S
  <2>3. g[S] = J!Read(g[S \ {i + 1}], s[i + 1]) /\ h[S] = J!Read(h[S \ {i + 1}], t[i + 1])
    BY <2>1, <2>2 DEF Reads
  <2>4. g[1 .. i] = h[1 .. i] /\ s[i + 1] = t[i + 1]
    BY <1>2
  <2> QED BY <2>2, <2>3, <2>4 DEF S
<1>3. Nat \subseteq G
  <2> HIDE DEF G
  <2> QED BY <1>1, <1>2, NatsByInduction
<1> QED BY <1>3

\* What is read before the first token, and after one more.
LEMMA ReadingEmpty == J!Reading(<< >>) = J!Start
<1>1. PICK h : Reads(h, << >>, 0)
  BY ReadsExists
<1> DEFINE g == CHOOSE q : Reads(q, << >>, 0)
<1>2. Reads(g, << >>, 0)
  BY <1>1
<1>3. J!Reading(<< >>) = g[1 .. 0]
  BY ReadingIsReads
<1>4. (1 .. 0) = {}
  OBVIOUS
<1> HIDE DEF g
<1> QED BY <1>2, <1>3, <1>4 DEF Reads

LEMMA ReadingAppend ==
  ASSUME NEW A, NEW t \in Seq(A), NEW x \in A
  PROVE  J!Reading(Append(t, x)) = J!Read(J!Reading(t), x)
<1> DEFINE n == Len(t)
           s == Append(t, x)
           g == CHOOSE q : Reads(q, t, n)
           h == CHOOSE q : Reads(q, s, n + 1)
<1>1. /\ n \in Nat /\ DOMAIN t = 1 .. n /\ DOMAIN s = 1 .. n + 1
      /\ s[n + 1] = x /\ \A i \in 1 .. n : t[i] = s[i]
  OBVIOUS
<1> HIDE DEF n, s
<1>2. Reads(g, t, n) /\ Reads(h, s, n + 1)
  <2>1. n + 1 \in Nat
    BY <1>1
  <2>2. (\E q : Reads(q, t, n)) /\ \E q : Reads(q, s, n + 1)
    BY <1>1, <2>1, ReadsExists, Zenon
  <2> QED BY <2>2, Zenon
<1>3. J!Reading(t) = g[1 .. n] /\ J!Reading(s) = h[1 .. n + 1]
  BY <1>1, ReadingIsReads
<1> HIDE DEF g, h
<1>4. g[1 .. n] = h[1 .. n]
  BY <1>1, <1>2, ReadsAgree
<1> DEFINE S == 1 .. n + 1
<1>5. Greatest(S) = n + 1 /\ S \ {n + 1} = 1 .. n /\ S # {} /\ S \in SUBSET S
  BY <1>1, GreatestIs
<1> HIDE DEF S
<1>6. h[S] = J!Read(h[1 .. n], s[n + 1])
  <2>1. h = [V \in SUBSET S |-> IF V = {} THEN J!Start ELSE J!Read(h[V \ {Greatest(V)}], s[Greatest(V)])]
    BY <1>2 DEF Reads, S
  <2> QED BY <1>5, <2>1
<1> QED BY <1>1, <1>3, <1>4, <1>6 DEF s, S


-----------------------------------------------------------------------------
(* JsonWriter: what a reader makes of the tokens that the writers write *)

Tokens == {"{", "}", "[", "]", ",", "key", "value"}
At(open, expect) == [open |-> open, expect |-> expect]

\* A reader that expects a value, in an element or as the root, or the first
\* thing in an array.
TakesValue(open, expect) ==
  expect = "value" \/ (expect = "first" /\ J!Last(open) = "array")

LEMMA ReadComma ==
  ASSUME NEW o
  PROVE  J!Read(At(o, "comma or close"), ",") = At(o, IF J!Last(o) = "object" THEN "key" ELSE "value")
BY DEF J!Read, At

LEMMA ReadKey ==
  ASSUME NEW o, NEW e, e = "key" \/ (e = "first" /\ J!Last(o) = "object")
  PROVE  J!Read(At(o, e), "key") = At(o, "value")
BY DEF J!Read, At

LEMMA ReadValue ==
  ASSUME NEW o, o # << >>, NEW e, TakesValue(o, e)
  PROVE  J!Read(At(o, e), "value") = At(o, "comma or close")
BY DEF J!Read, At, TakesValue, J!After

LEMMA ReadOpener ==
  ASSUME NEW o, NEW e, TakesValue(o, e) \/ e = "root", NEW kind \in J!Kinds
  PROVE  J!Read(At(o, e), J!Opener(kind)) = At(Append(o, kind), "first")
<1>1. CASE kind = "object"
  BY <1>1 DEF J!Read, At, TakesValue, J!Opener
<1>2. CASE kind = "array"
  BY <1>2 DEF J!Read, At, TakesValue, J!Opener
<1> QED BY <1>1, <1>2 DEF J!Kinds

\* What a reader may expect of an element that is to go on.
Inside(at) == at = "first" \/ at = "comma or close"

LEMMA ReadCloser ==
  ASSUME NEW o, NEW e, Inside(e), NEW kind \in J!Kinds, J!Last(o) = kind
  PROVE  J!Read(At(o, e), J!Closer(kind)) =
           At(J!Front(o), IF J!Front(o) = << >> THEN "end" ELSE "comma or close")
<1>1. CASE kind = "object"
  BY <1>1 DEF Inside, J!Read, At, J!Closer, J!After
<1>2. CASE kind = "array"
  BY <1>2 DEF Inside, J!Read, At, J!Closer, J!After
<1> QED BY <1>1, <1>2 DEF J!Kinds

\* A field of an element of this kind, and a value or the beginning of an
\* element in it.
Field(at, kind, more) ==
  (IF at = "comma or close" THEN <<",">> ELSE << >>) \o (IF kind = "object" THEN <<"key">> ELSE << >>) \o more

LEMMA Snoc ==
  ASSUME NEW A, NEW t \in Seq(A), NEW x \in A
  PROVE  /\ t \o <<x>> = Append(t, x) /\ Append(t, x) \in Seq(A)
         /\ t \o << >> = t /\ << >> \in Seq(A) /\ <<x>> \in Seq(A)
<1>1. << >> \in Seq(A) /\ t \o << >> = t
  BY EmptySeq, ConcatEmptySeq
<1>2. t \o <<x>> = Append(t, x) /\ Append(t, x) \in Seq(A) /\ <<x>> \in Seq(A)
  OBVIOUS
<1> QED BY <1>1, <1>2, Zenon

LEMMA SnocMore ==
  ASSUME NEW A, NEW t \in Seq(A), NEW c \in Seq(A), NEW k \in Seq(A), NEW x \in A
  PROVE  t \o ((c \o k) \o <<x>>) = Append((t \o c) \o k, x)
<1>1. <<x>> \in Seq(A)
  OBVIOUS
<1>2. c \o k \in Seq(A) /\ t \o c \in Seq(A)
  OBVIOUS
<1>3. (t \o c) \o k \in Seq(A)
  BY <1>2
<1>4. t \o ((c \o k) \o <<x>>) = (t \o (c \o k)) \o <<x>>
  BY <1>1, <1>2, ConcatAssociative
<1>5. t \o (c \o k) = (t \o c) \o k
  BY ConcatAssociative
<1>6. ((t \o c) \o k) \o <<x>> = Append((t \o c) \o k, x)
  BY <1>3, Snoc
<1> QED BY <1>4, <1>5, <1>6

\* The text before the last token of a field.
Separated(t, at) == IF at = "comma or close" THEN Append(t, ",") ELSE t
Keyed(t, at, kind) == IF kind = "object" THEN Append(Separated(t, at), "key") ELSE Separated(t, at)

LEMMA FieldAppends ==
  ASSUME NEW t \in Seq(Tokens), NEW at, NEW kind \in J!Kinds, NEW x \in Tokens
  PROVE  /\ Separated(t, at) \in Seq(Tokens) /\ Keyed(t, at, kind) \in Seq(Tokens)
         /\ t \o Field(at, kind, <<x>>) = Append(Keyed(t, at, kind), x)
<1> DEFINE c == IF at = "comma or close" THEN <<",">> ELSE << >>
           k == IF kind = "object" THEN <<"key">> ELSE << >>
           s == t \o c
           u == s \o k
<1>1. "," \in Tokens /\ "key" \in Tokens
  BY DEF Tokens
<1>2. \A y \in Tokens, r \in Seq(Tokens) :
        /\ r \o <<y>> = Append(r, y) /\ r \o << >> = r
        /\ <<y>> \in Seq(Tokens) /\ << >> \in Seq(Tokens) /\ Append(r, y) \in Seq(Tokens)
  BY Snoc, Zenon
<1>3. c \in Seq(Tokens) /\ k \in Seq(Tokens)
  BY <1>1, <1>2, Zenon
<1>4. s = (IF at = "comma or close" THEN Append(t, ",") ELSE t) /\ s \in Seq(Tokens)
  BY <1>1, <1>2, Zenon
<1> HIDE DEF s
<1>5. u = (IF kind = "object" THEN Append(s, "key") ELSE s) /\ u \in Seq(Tokens)
  BY <1>1, <1>2, <1>4, Zenon
<1>6. t \o Field(at, kind, <<x>>) = Append(u, x)
  <2>1. Field(at, kind, <<x>>) = (c \o k) \o <<x>>
    BY DEF Field
  <2>2. t \o ((c \o k) \o <<x>>) = Append((t \o c) \o k, x)
    <3> HIDE DEF c, k
    <3> QED BY <1>3, SnocMore
  <2> QED BY <2>1, <2>2 DEF s
<1> HIDE DEF u
<1>7. s = Separated(t, at) /\ u = Keyed(t, at, kind)
  BY <1>4, <1>5 DEF Separated, Keyed
<1> QED BY <1>4, <1>5, <1>6, <1>7

\* Before its last token, a field leaves the reader of the element waiting for a
\* value.
LEMMA FieldReads ==
  ASSUME NEW t \in Seq(Tokens), NEW o, NEW at, Inside(at), NEW x \in Tokens,
         NEW kind \in J!Kinds, J!Last(o) = kind,
         J!Reading(t) = At(o, at)
  PROVE  \E e : TakesValue(o, e) /\ J!Reading(t \o Field(at, kind, <<x>>)) = J!Read(At(o, e), x)
<1>0. "," \in Tokens /\ "key" \in Tokens
  BY DEF Tokens
<1> DEFINE s == Separated(t, at)
           u == Keyed(t, at, kind)
<1>1. s \in Seq(Tokens) /\ u \in Seq(Tokens) /\ t \o Field(at, kind, <<x>>) = Append(u, x)
  BY FieldAppends
<1>0b. s = (IF at = "comma or close" THEN Append(t, ",") ELSE t) /\ u = (IF kind = "object" THEN Append(s, "key") ELSE s)
  BY DEF Separated, Keyed
<1> HIDE DEF s, u
<1>2. J!Reading(s) = At(o, IF at = "first" THEN "first" ELSE IF kind = "object" THEN "key" ELSE "value")
  <2>1. CASE at = "comma or close"
    <3>1. J!Reading(s) = J!Read(At(o, "comma or close"), ",")
      BY <1>0, <1>0b, <1>1, <2>1, ReadingAppend
    <3> QED BY <2>1, <3>1, ReadComma
  <2>2. CASE at = "first"
    BY <1>0b, <1>1, <2>2
  <2> QED BY <2>1, <2>2 DEF Inside
<1>3. PICK e : J!Reading(u) = At(o, e) /\ TakesValue(o, e)
  <2>1. CASE kind = "object"
    <3> DEFINE before == IF at = "first" THEN "first" ELSE "key"
    <3>1. J!Reading(u) = J!Read(At(o, before), "key")
      BY <1>0, <1>0b, <1>1, <1>2, <2>1, ReadingAppend
    <3>2. J!Read(At(o, before), "key") = At(o, "value")
      <4>1. before = "key" \/ (before = "first" /\ J!Last(o) = "object")
        BY <2>1
      <4> HIDE DEF before
      <4> QED BY <4>1, ReadKey
    <3> HIDE DEF before
    <3>3. J!Reading(u) = At(o, "value") /\ TakesValue(o, "value")
      <4>1. J!Reading(u) = At(o, "value")
        BY <3>1, <3>2
      <4>2. TakesValue(o, "value")
        BY DEF TakesValue
      <4> QED BY <4>1, <4>2
    <3> QED BY <3>3, Zenon
  <2>2. CASE kind = "array"
    BY <1>0b, <1>1, <1>2, <2>2 DEF TakesValue
  <2> QED BY <2>1, <2>2 DEF J!Kinds
<1>4. J!Reading(Append(u, x)) = J!Read(At(o, e), x)
  BY <1>1, <1>3, ReadingAppend
<1> QED BY <1>1, <1>3, <1>4


-----------------------------------------------------------------------------
(* JsonWriter: the context, the writers and the reader of the text *)

\* The counter of the context has not wrapped.
NoWrap == next # 0

WriterTypes ==
  /\ text \in Seq(Tokens) /\ populated \in BOOLEAN
  /\ stack \in Seq(Nat) /\ next \in 1 .. JsonWord - 1
  /\ owner \in Seq(Writers \cup {NONE})
  /\ writer \in [Writers -> J!State \cup {NONE}]

\* The tokens on the stack are those of the open elements in their order, and a
\* writer that has a context is that of one of them.
Elements ==
  /\ Len(stack) = Len(owner) + 1 /\ stack[1] = 0
  /\ \A i, j \in 1 .. Len(stack) : i < j => stack[i] < stack[j]
  /\ \A i \in 1 .. Len(stack) : stack[i] < next
  /\ \A k \in 1 .. Len(owner) :
        owner[k] # NONE => writer[owner[k]] # NONE /\ writer[owner[k]].token = stack[k + 1]
  /\ \A w \in Writers : writer[w] # NONE => \E k \in 1 .. Len(owner) : owner[k] = w

\* The open elements are those of the reader, and the innermost knows what the
\* reader expects.
Hears(open, expect) ==
  /\ J!Reading(text) = At(open, expect) /\ open \in Seq(J!Kinds) /\ Len(open) = Len(owner)
  /\ \A k \in 1 .. Len(owner) :
        owner[k] # NONE => /\ writer[owner[k]].kind = open[k]
                           /\ k < Len(owner) => writer[owner[k]].hasElement
  /\ Len(owner) = 0 => expect = IF populated THEN "end" ELSE "root"
  /\ Len(owner) # 0 =>
        /\ populated
        /\ IF owner[Len(owner)] = NONE THEN expect \in {"first", "comma or close"}
           ELSE expect = IF writer[owner[Len(owner)]].hasElement THEN "comma or close" ELSE "first"

Heard == \E open, expect : Hears(open, expect)

Live == WriterTypes /\ Elements /\ Heard

WriterInv == ~stray /\ dead # "unwinding" /\ J!Valid(text) /\ (~closed => Live)

LEMMA LiveValid == ASSUME Live PROVE J!Valid(text)
<1>1. PICK o, e : Hears(o, e)
  BY DEF Live, Heard
<1>2. e \in {"root", "end", "first", "comma or close"}
  <2>1. CASE Len(owner) = 0
    <3>1. e = "end" \/ e = "root"
      BY <1>1, <2>1, Zenon DEF Hears
    <3> QED BY <3>1
  <2>2. CASE Len(owner) # 0
    <3>1. e \in {"first", "comma or close"} \/ e = "comma or close" \/ e = "first"
      BY <1>1, <2>2, Zenon DEF Hears
    <3> QED BY <3>1
  <2> QED BY <2>1, <2>2
<1>3. J!Reading(text).expect = e
  <2>1. J!Reading(text) = At(o, e)
    BY <1>1 DEF Hears
  <2> QED BY <2>1 DEF At
<1>4. J!Bad.expect = "nothing valid"
  BY DEF J!Bad
<1> QED BY <1>2, <1>3, <1>4 DEF J!Valid

LEMMA WriterProperties == ASSUME WriterInv PROVE InStep /\ ClosesSafely
<1>1. J!WellFormed /\ J!OnlyInnermostWrites /\ J!UnwindingSafe
  BY DEF WriterInv, J!WellFormed, J!OnlyInnermostWrites, J!UnwindingSafe
<1>2. ~closed => /\ Len(stack) = Len(owner) + 1
                 /\ DOMAIN owner = 1 .. Len(owner)
                 /\ \A k \in 1 .. Len(owner) : owner[k] # NONE => writer[owner[k]].token = stack[k + 1]
  BY DEF WriterInv, Live, Elements, WriterTypes
<1>3. J!StackMatches
  BY <1>2 DEF J!StackMatches
<1>4. ASSUME populated, ~closed, owner = << >> PROVE J!Complete(text)
  <2>1. PICK o, e : Hears(o, e)
    BY <1>4 DEF WriterInv, Live, Heard
  <2>2. J!Reading(text) = At(o, "end")
    BY <1>4, <2>1 DEF Hears
  <2> QED BY <2>2 DEF J!Complete, At
<1>5. J!CompleteWhenClosed
  BY <1>4 DEF J!CompleteWhenClosed
<1> QED BY <1>1, <1>3, <1>5 DEF InStep, ClosesSafely, J!InStep, J!ClosesSafely

\* The writer whose token is on top is the innermost.
LEMMA TopOwns ==
  ASSUME WriterTypes, Elements, NEW w \in Writers, writer[w] # NONE, J!IsTop(writer[w].token)
  PROVE  /\ Len(owner) # 0 /\ owner[Len(owner)] = w /\ J!Last(owner) = w
         /\ writer[w] \in J!State /\ w # NONE
<1>0. w # NONE /\ writer[w] \in J!State
  BY ObjectsAssumption DEF J!WriterAssumption, WriterTypes
<1>1. Len(owner) \in Nat /\ Len(stack) \in Nat
  BY DEF WriterTypes
<1>2. PICK k \in 1 .. Len(owner) : owner[k] = w
  BY DEF Elements
<1>3. writer[w].token = stack[k + 1] /\ stack[Len(stack)] = stack[k + 1] /\ k + 1 \in 1 .. Len(stack)
  <2>1. Len(stack) = Len(owner) + 1 /\ writer[w].token = stack[k + 1]
    BY <1>0, <1>2 DEF Elements
  <2>2. stack[Len(stack)] = writer[w].token
    BY DEF J!IsTop, J!Last
  <2> QED BY <1>1, <2>1, <2>2
<1>4. /\ \A i, j \in 1 .. Len(stack) : i < j => stack[i] < stack[j]
      /\ \A i \in 1 .. Len(stack) : stack[i] \in Nat
  <2>1. \A i, j \in 1 .. Len(stack) : i < j => stack[i] < stack[j]
    BY DEF Elements
  <2>2. \A i \in 1 .. Len(stack) : stack[i] \in Nat
    BY DEF WriterTypes
  <2> QED BY <2>1, <2>2
<1>5. k + 1 = Len(stack)
  BY <1>1, <1>3, <1>4
<1>6. k = Len(owner)
  BY <1>1, <1>5 DEF Elements
<1>7. Len(owner) # 0 /\ owner[Len(owner)] = w
  BY <1>2, <1>6
<1> QED BY <1>0, <1>7 DEF J!Last

\* It knows what the reader expects.
LEMMA TopHears ==
  ASSUME WriterTypes, NEW o, NEW e, Hears(o, e),
         NEW w \in Writers, w # NONE, Len(owner) # 0, owner[Len(owner)] = w
  PROVE  /\ o # << >> /\ J!Last(o) = writer[w].kind /\ populated
         /\ J!Reading(text) = At(o, IF writer[w].hasElement THEN "comma or close" ELSE "first")
<1>1. Len(owner) \in 1 .. Len(owner)
  BY DEF WriterTypes
<1>2. o[Len(owner)] = writer[w].kind /\ Len(o) = Len(owner) /\ populated
  BY <1>1 DEF Hears
<1>3. e = IF writer[w].hasElement THEN "comma or close" ELSE "first"
  BY Zenon DEF Hears
<1>4. J!Reading(text) = At(o, e)
  BY DEF Hears
<1> QED BY <1>1, <1>2, <1>3, <1>4 DEF J!Last

\* Without a writer whose token is on top, none is the innermost.
LEMMA OwnerIsTop ==
  ASSUME Live, NEW w \in Writers, Len(owner) # 0, owner[Len(owner)] = w
  PROVE  J!IsTop(writer[w].token)
<1>0. w # NONE
  BY ObjectsAssumption DEF J!WriterAssumption
<1>1. Len(owner) \in Nat /\ Len(owner) \in 1 .. Len(owner) /\ Len(stack) = Len(owner) + 1
  BY DEF Live, WriterTypes, Elements
<1>2. writer[w].token = stack[Len(stack)]
  BY <1>0, <1>1 DEF Live, Elements
<1>3. stack # << >>
  BY <1>1
<1> QED BY <1>2, <1>3 DEF J!IsTop, J!Last


\* A value or an element that is written by the innermost writer: what is read
\* then, before the last token.
LEMMA WriteReads ==
  ASSUME WriterTypes, NEW o, NEW e, Hears(o, e), ~closed, ~stray,
         NEW w \in Writers, w # NONE, Len(owner) # 0, owner[Len(owner)] = w, writer[w] \in J!State,
         NEW x \in Tokens, J!Write(w, J!Field(w, <<x>>))
  PROVE  /\ ~stray' /\ text' \in Seq(Tokens)
         /\ \E f : TakesValue(o, f) /\ J!Reading(text') = J!Read(At(o, f), x)
<1> DEFINE kind == writer[w].kind
<1>1. /\ J!Last(owner) = w /\ J!Last(o) = kind
      /\ J!Reading(text) = At(o, IF writer[w].hasElement THEN "comma or close" ELSE "first")
  BY TopHears DEF J!Last
<1>2. kind \in J!Kinds /\ text \in Seq(Tokens)
  BY DEF J!State, WriterTypes
<1>3. PICK at : /\ Inside(at)
                /\ J!Reading(text) = At(o, at) /\ J!Field(w, <<x>>) = Field(at, kind, <<x>>)
  <2>1. CASE writer[w].hasElement
    <3>1. J!Field(w, <<x>>) = Field("comma or close", kind, <<x>>)
      BY <2>1 DEF J!Field, Field
    <3>2. Inside("comma or close")
      BY DEF Inside
    <3> QED BY <1>1, <2>1, <3>1, <3>2
  <2>2. CASE ~writer[w].hasElement
    <3>1. J!Field(w, <<x>>) = Field("first", kind, <<x>>)
      BY <2>2 DEF J!Field, Field
    <3>2. Inside("first")
      BY DEF Inside
    <3> QED BY <1>1, <2>2, <3>1, <3>2
  <2> QED BY <2>1, <2>2
<1>4. text' = text \o Field(at, kind, <<x>>) /\ ~stray'
  BY <1>1, <1>3 DEF J!Write
<1> HIDE DEF kind
<1>5. text' \in Seq(Tokens)
  <2>1. /\ Keyed(text, at, kind) \in Seq(Tokens)
        /\ text \o Field(at, kind, <<x>>) = Append(Keyed(text, at, kind), x)
    BY <1>2, FieldAppends, Zenon
  <2>2. Append(Keyed(text, at, kind), x) \in Seq(Tokens)
    BY <2>1, Snoc, Zenon
  <2> QED BY <1>4, <2>1, <2>2, Zenon
<1>6. \E f : TakesValue(o, f) /\ J!Reading(text \o Field(at, kind, <<x>>)) = J!Read(At(o, f), x)
  <2>1. Inside(at) /\ J!Last(o) = kind /\ text \in Seq(Tokens) /\ kind \in J!Kinds /\ J!Reading(text) = At(o, at)
    BY <1>1, <1>2, <1>3
  <2> QED BY <2>1, FieldReads
<1> QED BY <1>4, <1>5, <1>6, Zenon

\* A writer that has written a field.
Wrote(w) ==
  /\ writer' \in [Writers -> J!State \cup {NONE}] /\ writer'[w] # NONE
  /\ writer'[w].hasElement /\ writer'[w].kind = writer[w].kind /\ writer'[w].token = writer[w].token

LEMMA ElementWritten ==
  ASSUME NEW r \in J!State
  PROVE  /\ [r EXCEPT !.hasElement = TRUE] \in J!State
         /\ [r EXCEPT !.hasElement = TRUE].hasElement
         /\ [r EXCEPT !.hasElement = TRUE].kind = r.kind
         /\ [r EXCEPT !.hasElement = TRUE].token = r.token
BY DEF J!State

LEMMA ValueWritten ==
  ASSUME WriterTypes, NEW w \in Writers, writer[w] \in J!State, J!WriteValue(w), ~closed, J!IsTop(writer[w].token)
  PROVE  /\ J!Write(w, J!Field(w, <<"value">>))
         /\ Wrote(w) /\ \A v \in Writers : v # w => writer'[v] = writer[v]
         /\ UNCHANGED <<stack, next, closed, populated, dead, owner>>
<1> DEFINE r == [writer[w] EXCEPT !.hasElement = TRUE]
<1>1. writer \in [Writers -> J!State \cup {NONE}] /\ writer' = [writer EXCEPT ![w] = r]
  BY DEF WriterTypes, J!WriteValue
<1>2. r \in J!State /\ r.hasElement /\ r.kind = writer[w].kind /\ r.token = writer[w].token /\ r # NONE
  BY ElementWritten, ObjectsAssumption DEF J!WriterAssumption, J!State
<1>3. /\ J!Write(w, J!Field(w, <<"value">>))
      /\ UNCHANGED <<stack, next, closed, populated, dead, owner>>
  BY DEF J!WriteValue
<1> HIDE DEF r
<1>4. writer'[w] = r /\ writer' \in [Writers -> J!State \cup {NONE}] /\ \A v \in Writers : v # w => writer'[v] = writer[v]
  BY <1>1, <1>2
<1> QED BY <1>2, <1>3, <1>4 DEF Wrote

LEMMA WriteValueKeeps ==
  ASSUME Live, ~closed, ~stray, NEW w \in Writers, J!WriteValue(w), J!IsTop(writer[w].token)
  PROVE  Live' /\ ~stray'
<1>0. WriterTypes /\ Elements /\ Len(owner) \in Nat /\ owner \in Seq(Writers \cup {NONE}) /\ writer[w] # NONE
  BY DEF Live, WriterTypes, J!WriteValue
<1>1. PICK o, e : Hears(o, e)
  BY DEF Live, Heard
<1>2. Len(owner) # 0 /\ owner[Len(owner)] = w /\ writer[w] \in J!State /\ w # NONE
  BY <1>0, TopOwns
<1>3. /\ J!Write(w, J!Field(w, <<"value">>))
      /\ Wrote(w) /\ \A v \in Writers : v # w => writer'[v] = writer[v]
      /\ UNCHANGED <<stack, next, closed, populated, dead, owner>>
  BY <1>0, <1>2, ValueWritten
<1>4. "value" \in Tokens
  BY DEF Tokens
<1>5. ~stray' /\ text' \in Seq(Tokens)
  BY <1>0, <1>1, <1>2, <1>3, <1>4, WriteReads, Zenon
<1>6. PICK f : TakesValue(o, f) /\ J!Reading(text') = J!Read(At(o, f), "value")
  BY <1>0, <1>1, <1>2, <1>3, <1>4, WriteReads, Zenon
<1>7. o # << >> /\ populated
  BY <1>0, <1>1, <1>2, TopHears, Zenon
<1>8. J!Reading(text') = At(o, "comma or close")
  BY <1>6, <1>7, ReadValue
<1>9. \A k \in 1 .. Len(owner) : owner[k] # NONE => owner[k] \in Writers
  BY <1>0
<1>10. WriterTypes'
  BY <1>0, <1>3, <1>5 DEF WriterTypes, Wrote
<1>11. Elements'
  <2>1. \A k \in 1 .. Len(owner) :
          owner[k] # NONE => writer'[owner[k]] # NONE /\ writer'[owner[k]].token = stack[k + 1]
    BY <1>0, <1>3, <1>9 DEF Elements, Wrote
  <2>2. \A v \in Writers : writer'[v] # NONE => \E k \in 1 .. Len(owner) : owner[k] = v
    BY <1>0, <1>3 DEF Elements
  <2> QED BY <1>0, <1>3, <2>1, <2>2 DEF Elements
<1>12. Hears(o, "comma or close")'
  <2>1. ASSUME NEW k \in 1 .. Len(owner), owner[k] # NONE
        PROVE  /\ writer'[owner[k]].kind = o[k]
               /\ k < Len(owner) => writer'[owner[k]].hasElement
    <3>1. writer[owner[k]].kind = o[k] /\ (k < Len(owner) => writer[owner[k]].hasElement)
      BY <1>1, <2>1 DEF Hears
    <3> QED BY <1>3, <1>9, <2>1, <3>1 DEF Wrote
  <2>2. o \in Seq(J!Kinds) /\ Len(o) = Len(owner)
    BY <1>1 DEF Hears
  <2>3. writer'[owner[Len(owner)]].hasElement
    BY <1>2, <1>3 DEF Wrote
  <2> QED BY <1>2, <1>3, <1>7, <1>8, <2>1, <2>2, <2>3 DEF Hears
<1> QED BY <1>5, <1>10, <1>11, <1>12 DEF Live, Heard


\* The innermost element is closed.
LEMMA ElementCloses ==
  ASSUME Live, ~closed, ~stray, NEW w \in Writers, J!Closes(w), J!CloseElement(w)
  PROVE  Live' /\ ~stray'
<1>0. /\ WriterTypes /\ Elements
      /\ Len(owner) \in Nat /\ owner \in Seq(Writers \cup {NONE})
      /\ stack \in Seq(Nat) /\ Len(stack) = Len(owner) + 1
  <2>1. WriterTypes /\ Elements
    BY DEF Live
  <2>2. owner \in Seq(Writers \cup {NONE}) /\ stack \in Seq(Nat)
    BY <2>1 DEF WriterTypes
  <2>3. Len(stack) = Len(owner) + 1
    BY <2>1 DEF Elements
  <2>4. Len(owner) \in Nat
    BY <2>2
  <2> QED BY <2>1, <2>2, <2>3, <2>4
<1>1. /\ writer[w] # NONE /\ J!IsTop(writer[w].token)
      /\ J!Write(w, <<J!Closer(writer[w].kind)>>)
      /\ stack' = J!Front(stack) /\ owner' = J!Front(owner) /\ writer' = [writer EXCEPT ![w] = NONE]
      /\ next' = next /\ closed' = closed /\ populated' = populated
  BY DEF J!Closes, J!CloseElement
<1>2. Len(owner) # 0 /\ owner[Len(owner)] = w /\ J!Last(owner) = w /\ writer[w] \in J!State /\ w # NONE
  BY <1>0, <1>1, TopOwns
<1> DEFINE kind == writer[w].kind
<1>3. kind \in J!Kinds /\ text \in Seq(Tokens) /\ J!Closer(kind) \in Tokens
  BY <1>0, <1>2 DEF J!State, WriterTypes, J!Closer, Tokens
<1>4. text' = Append(text, J!Closer(kind)) /\ text' \in Seq(Tokens) /\ ~stray'
  <2>1. text' = text \o <<J!Closer(kind)>> /\ ~stray'
    BY <1>1, <1>2 DEF J!Write
  <2> QED BY <1>3, <2>1, Snoc, Zenon
<1>5. PICK o, e : Hears(o, e)
  BY DEF Live, Heard
<1>6. J!Reading(text) = At(o, e) /\ o \in Seq(J!Kinds) /\ Len(o) = Len(owner) /\ populated /\ J!Last(o) = kind
  <2>1. J!Reading(text) = At(o, e) /\ o \in Seq(J!Kinds) /\ Len(o) = Len(owner)
    BY <1>5 DEF Hears
  <2> QED BY <1>0, <1>2, <1>5, <2>1, TopHears, Zenon
<1>7. Inside(e)
  <2>1. e = IF writer[w].hasElement THEN "comma or close" ELSE "first"
    BY <1>2, <1>5, Zenon DEF Hears
  <2> QED BY <2>1 DEF Inside
<1> DEFINE p == J!Front(o)
           f == IF p = << >> THEN "end" ELSE "comma or close"
<1> HIDE DEF kind
<1>8. J!Reading(text') = At(p, f)
  <2>1. J!Reading(text') = J!Read(At(o, e), J!Closer(kind))
    BY <1>3, <1>4, <1>6, ReadingAppend
  <2> QED BY <1>3, <1>6, <1>7, <2>1, ReadCloser, Zenon
<1> DEFINE n == Len(owner) - 1
<1>9. n \in Nat /\ n < Len(owner) /\ Len(owner) = n + 1
  BY <1>0, <1>2
<1> HIDE DEF f
<1>10. /\ owner' \in Seq(Writers \cup {NONE}) /\ Len(owner') = n /\ \A k \in 1 .. n : owner'[k] = owner[k]
       /\ stack' \in Seq(Nat) /\ Len(stack') = n + 1 /\ \A k \in 1 .. n + 1 : stack'[k] = stack[k]
       /\ p \in Seq(J!Kinds) /\ Len(p) = n /\ \A k \in 1 .. n : p[k] = o[k]
  <2>1. owner' = SubSeq(owner, 1, n) /\ stack' = SubSeq(stack, 1, n + 1) /\ p = SubSeq(o, 1, n)
    BY <1>0, <1>1, <1>6 DEF J!Front
  <2> HIDE DEF n, p
  <2>3. owner' \in Seq(Writers \cup {NONE}) /\ Len(owner') = n /\ \A k \in 1 .. n : owner'[k] = owner[k]
    BY <1>0, <1>9, <2>1
  <2>4. stack' \in Seq(Nat) /\ Len(stack') = n + 1 /\ \A k \in 1 .. n + 1 : stack'[k] = stack[k]
    BY <1>0, <1>9, <2>1
  <2>5. p \in Seq(J!Kinds) /\ Len(p) = n /\ \A k \in 1 .. n : p[k] = o[k]
    BY <1>6, <1>9, <2>1
  <2> QED BY <2>3, <2>4, <2>5
<1> HIDE DEF n, p
<1>11. /\ writer' \in [Writers -> J!State \cup {NONE}] /\ writer'[w] = NONE
       /\ \A v \in Writers : v # w => writer'[v] = writer[v]
  BY <1>0, <1>1 DEF WriterTypes
<1>12. \A k \in 1 .. n : owner[k] # w
  <2>1. \A k \in 1 .. n : stack[k + 1] < stack[Len(stack)] /\ stack[k + 1] \in Nat /\ stack[Len(stack)] \in Nat
    <3>1. \A k \in 1 .. n : k + 1 \in 1 .. Len(stack) /\ Len(stack) \in 1 .. Len(stack) /\ k + 1 < Len(stack)
      BY <1>0, <1>9
    <3>2. \A i \in 1 .. Len(stack) : stack[i] \in Nat
      BY <1>0
    <3>3. \A i, j \in 1 .. Len(stack) : i < j => stack[i] < stack[j]
      BY <1>0 DEF Elements
    <3> QED BY <3>1, <3>2, <3>3
  <2>2. writer[w].token = stack[Len(stack)]
    BY <1>1 DEF J!IsTop, J!Last
  <2>3. \A k \in 1 .. n : owner[k] # NONE => writer[owner[k]].token = stack[k + 1]
    <3>1. \A k \in 1 .. n : k \in 1 .. Len(owner)
      BY <1>9
    <3>2. \A k \in 1 .. Len(owner) : owner[k] # NONE => writer[owner[k]].token = stack[k + 1]
      BY <1>0, Zenon DEF Elements
    <3> QED BY <3>1, <3>2
  <2>4. SUFFICES ASSUME NEW k \in 1 .. n, owner[k] = w PROVE FALSE
    OBVIOUS
  <2>5. writer[w].token = stack[k + 1] /\ stack[k + 1] < stack[Len(stack)] /\ stack[k + 1] \in Nat
    BY <1>2, <2>1, <2>3, <2>4
  <2> QED BY <2>2, <2>5
<1>13. \A k \in 1 .. n : owner'[k] = owner[k] /\ (owner[k] # NONE => writer'[owner[k]] = writer[owner[k]])
  <2>1. \A k \in 1 .. n : owner[k] # NONE => owner[k] \in Writers
    BY <1>0, <1>9
  <2> QED BY <1>10, <1>11, <1>12, <2>1
<1>14. WriterTypes'
  BY <1>0, <1>1, <1>4, <1>10, <1>11 DEF WriterTypes
<1>15. Elements'
  <2>1. ASSUME NEW k \in 1 .. n, owner'[k] # NONE
        PROVE  writer'[owner'[k]] # NONE /\ writer'[owner'[k]].token = stack'[k + 1]
    <3>1. owner'[k] = owner[k] /\ writer'[owner[k]] = writer[owner[k]] /\ owner[k] # NONE
      BY <1>13, <2>1
    <3>2. k \in 1 .. Len(owner) /\ k + 1 \in 1 .. n + 1
      BY <1>9
    <3>3. writer[owner[k]] # NONE /\ writer[owner[k]].token = stack[k + 1]
      BY <1>0, <3>1, <3>2 DEF Elements
    <3> QED BY <1>10, <3>1, <3>2, <3>3
  <2>2. ASSUME NEW v \in Writers, writer'[v] # NONE
        PROVE  \E k \in 1 .. n : owner'[k] = v
    <3>1. v # w /\ writer[v] # NONE
      BY <1>11, <2>2
    <3>2. PICK k \in 1 .. Len(owner) : owner[k] = v
      BY <1>0, <3>1 DEF Elements
    <3>3. k # Len(owner)
      BY <1>2, <3>1, <3>2
    <3> QED BY <1>9, <1>10, <3>2, <3>3
  <2>3. stack'[1] = 0 /\ \A i, j \in 1 .. n + 1 : i < j => stack'[i] < stack'[j]
    BY <1>0, <1>9, <1>10 DEF Elements
  <2>4. \A i \in 1 .. n + 1 : stack'[i] < next
    BY <1>0, <1>9, <1>10 DEF Elements
  <2> QED BY <1>1, <1>10, <2>1, <2>2, <2>3, <2>4 DEF Elements
<1>16. Hears(p, f)'
  <2>1. ASSUME NEW k \in 1 .. n, owner'[k] # NONE
        PROVE  writer'[owner'[k]].kind = p[k] /\ writer'[owner'[k]].hasElement
    <3>1. k \in 1 .. Len(owner) /\ k < Len(owner) /\ owner[k] # NONE
      BY <1>9, <1>10, <2>1
    <3>2. writer[owner[k]].kind = o[k] /\ writer[owner[k]].hasElement
      BY <1>5, <3>1 DEF Hears
    <3> QED BY <1>10, <1>13, <3>1, <3>2
  <2>2. n = 0 <=> p = << >>
    BY <1>10
  <2>3. n = 0 => f = "end"
    BY <2>2 DEF f
  <2>4. n # 0 => f = "comma or close"
    BY <2>2 DEF f
  <2>5. n # 0 => n \in 1 .. n
    BY <1>9
  <2> QED BY <1>1, <1>6, <1>8, <1>10, <2>1, <2>3, <2>4, <2>5 DEF Hears
<1> QED BY <1>4, <1>14, <1>15, <1>16 DEF Live, Heard


LEMMA SmallMod == ASSUME NEW W \in Nat \ {0}, NEW a \in 0 .. W - 1 PROVE a % W = a
OBVIOUS

LEMMA SelfMod == ASSUME NEW W \in Nat \ {0} PROVE W % W = 0
OBVIOUS

\* The counter as long as it does not wrap.
LEMMA NextToken ==
  ASSUME WriterTypes, next' = (next + 1) % JsonWord, NoWrap'
  PROVE  next' = next + 1 /\ next' \in 1 .. JsonWord - 1
<1>1. JsonWord \in Nat \ {0} /\ next \in 1 .. JsonWord - 1
  BY ObjectsAssumption DEF J!WriterAssumption, WriterTypes
<1>2. next + 1 # JsonWord
  <2>1. JsonWord % JsonWord = 0
    BY <1>1, SelfMod
  <2>2. next' # 0
    BY DEF NoWrap
  <2> QED BY <2>1, <2>2
<1>3. next + 1 \in 0 .. JsonWord - 1
  BY <1>1, <1>2
<1>4. (next + 1) % JsonWord = next + 1
  BY <1>1, <1>3, SmallMod
<1> QED BY <1>1, <1>3, <1>4

\* An element is opened inside the innermost one, or as the root.
LEMMA ElementOpens ==
  ASSUME WriterTypes, Elements, NoWrap',
         NEW o \in Seq(J!Kinds), Len(o) = Len(owner),
         NEW x \in Writers, writer[x] = NONE, NEW kind \in J!Kinds, J!Register(x, kind),
         text' \in Seq(Tokens), J!Reading(text') = At(Append(o, kind), "first"), populated' = TRUE,
         writer' \in [Writers -> J!State \cup {NONE}], writer'[x] = J!New(kind), writer'[x] # NONE,
         \A v \in Writers : v # x /\ writer'[v] # NONE => writer[v] # NONE,
         \A k \in 1 .. Len(owner) : owner[k] # NONE =>
           LET v == writer'[owner[k]] IN
             v # NONE /\ v.token = stack[k + 1] /\ v.kind = o[k] /\ v.hasElement
  PROVE  Live'
<1> DEFINE n == Len(owner)
<1>0. /\ n \in Nat /\ Len(stack) = n + 1
      /\ owner \in Seq(Writers \cup {NONE}) /\ stack \in Seq(Nat) /\ next \in Nat
      /\ writer'[x].token = next /\ writer'[x].kind = kind /\ ~writer'[x].hasElement
      /\ x # NONE
  BY ObjectsAssumption DEF WriterTypes, Elements, J!New, J!WriterAssumption
<1>1. stack' = Append(stack, next) /\ owner' = Append(owner, x) /\ next' = next + 1 /\ next' \in 1 .. JsonWord - 1
  BY NextToken DEF J!Register
<1> HIDE DEF n
<1>2. /\ owner' \in Seq(Writers \cup {NONE}) /\ Len(owner') = n + 1
      /\ owner'[n + 1] = x /\ \A k \in 1 .. n : owner'[k] = owner[k]
  BY <1>0, <1>1 DEF n
<1>3. /\ stack' \in Seq(Nat) /\ Len(stack') = n + 2
      /\ stack'[n + 2] = next /\ \A k \in 1 .. n + 1 : stack'[k] = stack[k]
  BY <1>0, <1>1
<1> DEFINE p == Append(o, kind)
<1>4. p \in Seq(J!Kinds) /\ Len(p) = n + 1 /\ p[n + 1] = kind /\ \A k \in 1 .. n : p[k] = o[k]
  BY <1>0 DEF n
<1> HIDE DEF p
<1>5. \A k \in 1 .. n + 1 : k \in 1 .. n \/ k = n + 1
  BY <1>0
<1>6. WriterTypes'
  BY <1>1, <1>2, <1>3 DEF WriterTypes
<1>7. \A k \in 1 .. n + 1 : owner'[k] # NONE =>
        writer'[owner'[k]] # NONE /\ writer'[owner'[k]].token = stack'[k + 1] /\ writer'[owner'[k]].kind = p[k]
  <2>1. ASSUME NEW k \in 1 .. n, owner[k] # NONE
        PROVE  writer'[owner[k]] # NONE /\ writer'[owner[k]].token = stack'[k + 1] /\ writer'[owner[k]].kind = p[k]
    <3>1. k + 1 \in 1 .. n + 1 /\ k \in 1 .. Len(owner)
      BY <1>0 DEF n
    <3>2. writer'[owner[k]] # NONE /\ writer'[owner[k]].token = stack[k + 1] /\ writer'[owner[k]].kind = o[k]
      BY <2>1, <3>1
    <3> QED BY <1>3, <1>4, <3>1, <3>2
  <2>2. writer'[x] # NONE /\ writer'[x].token = stack'[(n + 1) + 1] /\ writer'[x].kind = p[n + 1]
    BY <1>0, <1>3, <1>4
  <2> QED BY <1>2, <1>5, <2>1, <2>2
<1>8. Elements'
  <2>1. ASSUME NEW v \in Writers, writer'[v] # NONE
        PROVE  \E k \in 1 .. n + 1 : owner'[k] = v
    <3>1. CASE v = x
      BY <1>0, <1>2, <3>1
    <3>2. CASE v # x
      <4>1. PICK k \in 1 .. Len(owner) : owner[k] = v
        BY <2>1, <3>2 DEF Elements
      <4> QED BY <1>0, <1>2, <4>1 DEF n
    <3> QED BY <3>1, <3>2
  <2>2. /\ stack[1] = 0 /\ \A i, j \in 1 .. n + 1 : i < j => stack[i] < stack[j]
        /\ \A i \in 1 .. n + 1 : stack[i] < next /\ stack[i] \in Nat
    BY <1>0 DEF Elements
  <2>3. \A i \in 1 .. n + 2 : i \in 1 .. n + 1 \/ i = n + 2
    BY <1>0
  <2>4. stack'[1] = 0 /\ \A i, j \in 1 .. n + 2 : i < j => stack'[i] < stack'[j]
    <3>1. stack'[1] = 0
      BY <1>0, <1>3, <2>2
    <3>2. ASSUME NEW i \in 1 .. n + 2, NEW j \in 1 .. n + 2, i < j
          PROVE  stack'[i] < stack'[j]
      <4>1. i \in 1 .. n + 1
        BY <1>0, <3>2
      <4>2. CASE j \in 1 .. n + 1
        BY <1>3, <2>2, <3>2, <4>1, <4>2
      <4>3. CASE j = n + 2
        BY <1>3, <2>2, <4>1, <4>3
      <4> QED BY <2>3, <4>2, <4>3
    <3> QED BY <3>1, <3>2
  <2>5. ASSUME NEW i \in 1 .. n + 2 PROVE stack'[i] < next'
    <3>1. CASE i \in 1 .. n + 1
      BY <1>0, <1>1, <1>3, <2>2, <3>1
    <3>2. CASE i = n + 2
      BY <1>0, <1>1, <1>3, <3>2
    <3> QED BY <2>3, <3>1, <3>2
  <2>6. Len(stack') = (n + 1) + 1
    BY <1>0, <1>3
  <2> QED BY <1>0, <1>2, <1>3, <1>7, <2>1, <2>4, <2>5, <2>6 DEF Elements
<1>9. Hears(p, "first")'
  <2>1. ASSUME NEW k \in 1 .. n + 1, owner'[k] # NONE, k < n + 1
        PROVE  writer'[owner'[k]].hasElement
    <3>1. k \in 1 .. Len(owner) /\ owner'[k] = owner[k]
      BY <1>0, <1>2, <1>5, <2>1 DEF n
    <3> QED BY <2>1, <3>1
  <2>2. n + 1 # 0
    BY <1>0
  <2>3. J!Reading(text') = At(p, "first")
    BY DEF p
  <2> QED BY <1>0, <1>2, <1>4, <1>7, <2>1, <2>2, <2>3 DEF Hears
<1> QED BY <1>6, <1>8, <1>9 DEF Live, Heard

LEMMA WriteElementKeeps ==
  ASSUME Live, ~closed, ~stray, NoWrap', NEW w \in Writers, NEW x \in Writers, NEW kind \in J!Kinds,
         J!WriteElement(w, x, kind), J!IsTop(writer[w].token)
  PROVE  Live' /\ ~stray'
<1>0. WriterTypes /\ Elements /\ writer[w] # NONE /\ writer[x] = NONE
  BY DEF Live, J!WriteElement
<1>1. PICK o, e : Hears(o, e)
  BY DEF Live, Heard
<1>2. Len(owner) # 0 /\ owner[Len(owner)] = w /\ writer[w] \in J!State /\ w # NONE
  BY <1>0, TopOwns
<1> DEFINE r == [writer[w] EXCEPT !.hasElement = TRUE]
<1>3. /\ J!Write(w, J!Field(w, <<J!Opener(kind)>>)) /\ J!Register(x, kind) /\ populated' = populated
      /\ writer' = [writer EXCEPT ![w] = r, ![x] = J!New(kind)]
  BY <1>0 DEF J!WriteElement
<1>4. J!Opener(kind) \in Tokens
  BY DEF J!Opener, Tokens
<1>5. ~stray' /\ text' \in Seq(Tokens)
  BY <1>0, <1>1, <1>2, <1>3, <1>4, WriteReads, Zenon
<1>6. PICK f : TakesValue(o, f) /\ J!Reading(text') = J!Read(At(o, f), J!Opener(kind))
  BY <1>0, <1>1, <1>2, <1>3, <1>4, WriteReads, Zenon
<1>7. populated
  BY <1>0, <1>1, <1>2, TopHears, Zenon
<1>8. J!Reading(text') = At(Append(o, kind), "first")
  BY <1>6, ReadOpener
<1>9. r \in J!State /\ r.hasElement /\ r.kind = writer[w].kind /\ r.token = writer[w].token /\ r # NONE
  BY <1>2, ElementWritten, ObjectsAssumption DEF J!WriterAssumption, J!State
<1>10. J!New(kind) \in J!State /\ J!New(kind) # NONE
  <2>1. next \in 0 .. JsonWord - 1
    BY <1>0 DEF WriterTypes
  <2>2. J!New(kind) \in J!State
    BY <2>1 DEF J!New, J!State
  <2> QED BY <2>2, ObjectsAssumption DEF J!WriterAssumption, J!State
<1> HIDE DEF r
<1>11. w # x
  BY <1>0
<1>12. /\ writer' \in [Writers -> J!State \cup {NONE}] /\ writer'[x] = J!New(kind) /\ writer'[w] = r
       /\ \A v \in Writers : v # x /\ v # w => writer'[v] = writer[v]
  <2>1. writer \in [Writers -> J!State \cup {NONE}]
    BY <1>0 DEF WriterTypes
  <2> QED BY <1>3, <1>9, <1>10, <1>11, <2>1
<1>13. \A v \in Writers : v # x /\ writer'[v] # NONE => writer[v] # NONE
  BY <1>0, <1>12
<1>14. o \in Seq(J!Kinds) /\ Len(o) = Len(owner)
  BY <1>1 DEF Hears
<1>15. ASSUME NEW k \in 1 .. Len(owner), owner[k] # NONE
       PROVE  LET v == writer'[owner[k]] IN
                v # NONE /\ v.token = stack[k + 1] /\ v.kind = o[k] /\ v.hasElement
  <2>1. writer[owner[k]] # NONE /\ writer[owner[k]].token = stack[k + 1]
    BY <1>0, <1>15 DEF Elements
  <2>2. writer[owner[k]].kind = o[k] /\ (k < Len(owner) => writer[owner[k]].hasElement)
    BY <1>1, <1>15 DEF Hears
  <2>3. owner[k] \in Writers /\ owner[k] # x
    <3>1. owner \in Seq(Writers \cup {NONE})
      BY <1>0 DEF WriterTypes
    <3> QED BY <1>0, <1>15, <2>1, <3>1
  <2>4. CASE owner[k] = w
    BY <1>9, <1>12, <2>1, <2>2, <2>4
  <2>5. CASE owner[k] # w
    <3>1. k < Len(owner)
      <4>1. Len(owner) \in Nat
        BY <1>0 DEF WriterTypes
      <4> QED BY <1>2, <2>5, <4>1
    <3>2. writer'[owner[k]] = writer[owner[k]]
      BY <1>12, <2>3, <2>5
    <3> QED BY <2>1, <2>2, <3>1, <3>2
  <2> QED BY <2>4, <2>5
<1>16. writer'[x] # NONE /\ populated' = TRUE
  <2>1. populated \in BOOLEAN
    BY <1>0 DEF WriterTypes
  <2> QED BY <1>3, <1>7, <1>10, <1>12, <2>1
<1>17. Live'
  BY <1>0, <1>3, <1>5, <1>8, <1>12, <1>13, <1>14, <1>15, <1>16, ElementOpens
<1> QED BY <1>5, <1>17

LEMMA WriteRootKeeps ==
  ASSUME Live, ~closed, ~stray, NoWrap', NEW x \in Writers, NEW kind \in J!Kinds,
         J!WriteRoot(x, kind), ~populated
  PROVE  Live' /\ ~stray' /\ closed' = closed
<1>0. WriterTypes /\ Elements /\ writer[x] = NONE
  BY DEF Live, J!WriteRoot
<1>1. PICK o, e : Hears(o, e)
  BY DEF Live, Heard
<1>2. Len(owner) = 0 /\ Len(o) = 0 /\ e = "root" /\ o \in Seq(J!Kinds) /\ J!Reading(text) = At(o, e)
  <2>1. Len(owner) = 0
    BY <1>1 DEF Hears
  <2>2. e = "root"
    BY <1>1, <2>1 DEF Hears
  <2> QED BY <1>1, <2>1, <2>2 DEF Hears
<1>3. J!IsTop(J!RootToken)
  <2>1. Len(stack) = 1 /\ stack[1] = 0 /\ stack # << >>
    BY <1>0, <1>2 DEF Elements
  <2> QED BY <2>1 DEF J!IsTop, J!Last, J!RootToken
<1>4. /\ text' = Append(text, J!Opener(kind)) /\ J!Register(x, kind) /\ populated' = TRUE
      /\ writer' = [writer EXCEPT ![x] = J!New(kind)] /\ stray' = stray /\ closed' = closed
  BY <1>3 DEF J!WriteRoot, J!Register
<1>5. J!Opener(kind) \in Tokens /\ text \in Seq(Tokens)
  BY <1>0 DEF J!Opener, Tokens, WriterTypes
<1>6. text' \in Seq(Tokens)
  BY <1>4, <1>5, Snoc, Zenon
<1>7. J!Reading(text') = At(Append(o, kind), "first")
  <2>1. J!Reading(text') = J!Read(At(o, "root"), J!Opener(kind))
    BY <1>2, <1>4, <1>5, ReadingAppend
  <2> QED BY <2>1, ReadOpener
<1>8. J!New(kind) \in J!State /\ J!New(kind) # NONE
  <2>1. next \in 0 .. JsonWord - 1
    BY <1>0 DEF WriterTypes
  <2>2. J!New(kind) \in J!State
    BY <2>1 DEF J!New, J!State
  <2> QED BY <2>2, ObjectsAssumption DEF J!WriterAssumption, J!State
<1>9. /\ writer' \in [Writers -> J!State \cup {NONE}] /\ writer'[x] = J!New(kind) /\ writer'[x] # NONE
      /\ \A v \in Writers : v # x => writer'[v] = writer[v]
  <2>1. writer \in [Writers -> J!State \cup {NONE}]
    BY <1>0 DEF WriterTypes
  <2> QED BY <1>4, <1>8, <2>1
<1>10. \A k \in 1 .. Len(owner) : FALSE
  BY <1>2
<1>11. Live'
  BY <1>0, <1>2, <1>4, <1>6, <1>7, <1>9, <1>10, ElementOpens
<1> QED BY <1>4, <1>11


\* What a writer holds moves to another; what that one held has no writer.
LEMMA MoveKeepsLive ==
  ASSUME Live, NEW w \in Writers, NEW x \in Writers, J!Move(w, x)
  PROVE  Live'
<1>0. WriterTypes /\ Elements /\ writer[w] # NONE /\ w # x
  BY DEF Live, J!Move
<1>1. /\ writer \in [Writers -> J!State \cup {NONE}] /\ owner \in Seq(Writers \cup {NONE}) /\ Len(owner) \in Nat
      /\ NONE \notin Writers
  BY <1>0, ObjectsAssumption DEF WriterTypes, J!WriterAssumption
<1>2. /\ writer' \in [Writers -> J!State \cup {NONE}] /\ writer'[x] = writer[w] /\ writer'[w] = NONE
      /\ \A v \in Writers : v # w /\ v # x => writer'[v] = writer[v]
  <2>1. writer' = [writer EXCEPT ![x] = writer[w], ![w] = NONE]
    BY DEF J!Move
  <2> QED BY <1>0, <1>1, <2>1
<1>3. UNCHANGED <<text, stack, next, populated>>
  BY DEF J!Move
<1>4. /\ owner' \in Seq(Writers \cup {NONE}) /\ Len(owner') = Len(owner)
      /\ \A k \in 1 .. Len(owner) :
           owner'[k] = IF owner[k] = w THEN x ELSE IF owner[k] = x THEN NONE ELSE owner[k]
  <2> DEFINE f(k) == IF owner[k] = w THEN x ELSE IF owner[k] = x THEN NONE ELSE owner[k]
  <2>1. owner' = [k \in 1 .. Len(owner) |-> f(k)]
    <3>1. DOMAIN owner = 1 .. Len(owner)
      BY <1>1
    <3> QED BY <3>1 DEF J!Move
  <2>2. \A k \in 1 .. Len(owner) : f(k) \in Writers \cup {NONE}
    BY <1>1
  <2> HIDE DEF f
  <2>3. owner' \in Seq(Writers \cup {NONE}) /\ Len(owner') = Len(owner) /\ \A k \in 1 .. Len(owner) : owner'[k] = f(k)
    BY <1>1, <2>1, <2>2
  <2> QED BY <2>3 DEF f
\* An element that still has a writer has what the writer had.
<1>5. \A k \in 1 .. Len(owner) : owner'[k] # NONE => owner[k] # NONE /\ writer'[owner'[k]] = writer[owner[k]]
  <2>1. ASSUME NEW k \in 1 .. Len(owner), owner'[k] # NONE
        PROVE  owner[k] # NONE /\ writer'[owner'[k]] = writer[owner[k]]
    <3>1. owner[k] \in Writers \cup {NONE}
      BY <1>1
    <3>2. CASE owner[k] = w
      BY <1>1, <1>2, <1>4, <3>2
    <3>3. CASE owner[k] # w
      <4>1. owner[k] # x /\ owner'[k] = owner[k]
        BY <1>4, <2>1, <3>3
      <4> QED BY <1>2, <2>1, <3>1, <3>3, <4>1
    <3> QED BY <3>2, <3>3
  <2> QED BY <2>1
<1>6. WriterTypes'
  BY <1>0, <1>2, <1>3, <1>4 DEF WriterTypes
<1>7. Elements'
  <2>1. ASSUME NEW k \in 1 .. Len(owner), owner'[k] # NONE
        PROVE  writer'[owner'[k]] # NONE /\ writer'[owner'[k]].token = stack[k + 1]
    <3>1. owner[k] # NONE /\ writer'[owner'[k]] = writer[owner[k]]
      BY <1>5, <2>1
    <3> QED BY <1>0, <3>1 DEF Elements
  <2>2. ASSUME NEW v \in Writers, writer'[v] # NONE
        PROVE  \E k \in 1 .. Len(owner) : owner'[k] = v
    <3>1. CASE v = x
      <4>1. PICK k \in 1 .. Len(owner) : owner[k] = w
        BY <1>0 DEF Elements
      <4> QED BY <1>4, <3>1, <4>1
    <3>2. CASE v # x
      <4>1. v # w /\ writer[v] # NONE
        BY <1>2, <2>2, <3>2
      <4>2. PICK k \in 1 .. Len(owner) : owner[k] = v
        BY <1>0, <4>1 DEF Elements
      <4> QED BY <1>4, <3>2, <4>1, <4>2
    <3> QED BY <3>1, <3>2
  <2> QED BY <1>0, <1>3, <1>4, <2>1, <2>2 DEF Elements
<1>8. PICK o, e : Hears(o, e)
  BY DEF Live, Heard
<1>9. Hears(o, e)'
  <2>1. ASSUME NEW k \in 1 .. Len(owner), owner'[k] # NONE
        PROVE  writer'[owner'[k]].kind = o[k] /\ (k < Len(owner) => writer'[owner'[k]].hasElement)
    <3>1. owner[k] # NONE /\ writer'[owner'[k]] = writer[owner[k]]
      BY <1>5, <2>1
    <3> QED BY <1>8, <3>1 DEF Hears
  <2>2. Len(owner') = 0 => e = IF populated THEN "end" ELSE "root"
    BY <1>4, <1>8 DEF Hears
  <2>3. Len(owner') # 0 =>
          /\ populated
          /\ IF owner'[Len(owner')] = NONE THEN e \in {"first", "comma or close"}
             ELSE e = IF writer'[owner'[Len(owner')]].hasElement THEN "comma or close" ELSE "first"
    <3> SUFFICES ASSUME Len(owner) # 0
                 PROVE  /\ populated
                        /\ IF owner'[Len(owner)] = NONE THEN e \in {"first", "comma or close"}
                           ELSE e = IF writer'[owner'[Len(owner)]].hasElement THEN "comma or close" ELSE "first"
      BY <1>4
    <3>1. Len(owner) \in 1 .. Len(owner)
      BY <1>1
    <3>2. /\ populated
          /\ IF owner[Len(owner)] = NONE THEN e \in {"first", "comma or close"}
             ELSE e = IF writer[owner[Len(owner)]].hasElement THEN "comma or close" ELSE "first"
      BY <1>8, Zenon DEF Hears
    <3>3. CASE owner'[Len(owner)] = NONE
      BY <3>2, <3>3, Zenon
    <3>4. CASE owner'[Len(owner)] # NONE
      <4>1. owner[Len(owner)] # NONE /\ writer'[owner'[Len(owner)]] = writer[owner[Len(owner)]]
        BY <1>5, <3>1, <3>4, Zenon
      <4> QED BY <3>2, <3>4, <4>1, Zenon
    <3> QED BY <3>3, <3>4
  <2>4. J!Reading(text') = At(o, e) /\ o \in Seq(J!Kinds) /\ Len(o) = Len(owner)
    BY <1>3, <1>8 DEF Hears
  <2> QED BY <1>3, <1>4, <2>1, <2>2, <2>3, <2>4 DEF Hears
<1> QED BY <1>6, <1>7, <1>9 DEF Live, Heard

LEMMA LiveStays ==
  ASSUME Live, UNCHANGED <<text, stack, next, populated, writer, owner>>
  PROVE  Live'
BY DEF Live, Heard, Hears, WriterTypes, Elements

\* A closed context: the text stays, and no destructor throws.
LEMMA ClosedKeeps ==
  ASSUME closed, J!Call
  PROVE  text' = text /\ stray' = stray /\ closed' /\ dead' = dead
<1>1. ASSUME NEW x \in Writers, NEW kind \in J!Kinds, J!WriteRoot(x, kind) PROVE UNCHANGED <<text, stray, closed, dead>>
  BY <1>1 DEF J!WriteRoot, J!Throw
<1>2. ASSUME NEW w \in Writers, J!WriteValue(w) PROVE UNCHANGED <<text, stray, closed, dead>>
  BY <1>2 DEF J!WriteValue, J!Write
<1>3. ASSUME NEW w \in Writers, NEW x \in Writers, NEW kind \in J!Kinds, J!WriteElement(w, x, kind)
      PROVE  UNCHANGED <<text, stray, closed, dead>>
  BY <1>3 DEF J!WriteElement
<1>4. ASSUME NEW w \in Writers, J!Close(w) PROVE UNCHANGED <<text, stray, closed, dead>>
  BY <1>4 DEF J!Close, J!Throw, J!CloseElement, J!Write
<1>5. ASSUME NEW w \in Writers, J!Destroy(w) PROVE UNCHANGED <<text, stray, closed, dead>>
  BY <1>5 DEF J!Destroy, J!Closes, J!CloseElement, J!Write
<1>6. ASSUME NEW w \in Writers, NEW x \in Writers, J!Move(w, x) PROVE UNCHANGED <<text, stray, closed, dead>>
  BY <1>6 DEF J!Move
<1>7. CASE J!CloseRoot
  BY <1>7 DEF J!CloseRoot
<1> QED BY <1>1, <1>2, <1>3, <1>4, <1>5, <1>6, <1>7 DEF J!Call

\* An open one.
LEMMA WriterCallKeeps ==
  ASSUME Live, ~closed, ~stray, dead # "unwinding", NoWrap', J!Call
  PROVE  Live' /\ ~stray' /\ dead' # "unwinding"
<1>1. ASSUME NEW x \in Writers, NEW kind \in J!Kinds, J!WriteRoot(x, kind)
      PROVE  Live' /\ ~stray' /\ dead' # "unwinding"
  <2>1. CASE populated
    BY <1>1, <2>1, LiveStays DEF J!WriteRoot, J!Throw
  <2>2. CASE ~populated
    <3>1. Live' /\ ~stray'
      BY <1>1, <2>2, WriteRootKeeps
    <3>2. dead' = dead
      BY <1>1 DEF J!WriteRoot, J!Throw, J!Register
    <3> QED BY <3>1, <3>2
  <2> QED BY <2>1, <2>2
<1>2. ASSUME NEW w \in Writers, J!WriteValue(w) PROVE Live' /\ ~stray' /\ dead' # "unwinding"
  <2>1. CASE J!IsTop(writer[w].token)
    <3>1. Live' /\ ~stray'
      BY <1>2, <2>1, WriteValueKeeps
    <3>2. dead' = dead
      BY <1>2 DEF J!WriteValue, J!Throw
    <3> QED BY <3>1, <3>2
  <2>2. CASE ~J!IsTop(writer[w].token)
    BY <1>2, <2>2, LiveStays DEF J!WriteValue, J!Throw
  <2> QED BY <2>1, <2>2
<1>3. ASSUME NEW w \in Writers, NEW x \in Writers, NEW kind \in J!Kinds, J!WriteElement(w, x, kind)
      PROVE  Live' /\ ~stray' /\ dead' # "unwinding"
  <2>1. CASE J!IsTop(writer[w].token)
    <3>1. Live' /\ ~stray'
      BY <1>3, <2>1, WriteElementKeeps
    <3>2. dead' = dead
      BY <1>3 DEF J!WriteElement, J!Throw, J!Register
    <3> QED BY <3>1, <3>2
  <2>2. CASE ~J!IsTop(writer[w].token)
    BY <1>3, <2>2, LiveStays DEF J!WriteElement, J!Throw
  <2> QED BY <2>1, <2>2
<1>4. ASSUME NEW w \in Writers, J!Close(w) PROVE Live' /\ ~stray' /\ dead' # "unwinding"
  <2>1. CASE J!Closes(w) /\ J!CloseElement(w)
    <3>1. Live' /\ ~stray'
      BY <2>1, ElementCloses
    <3> QED BY <2>1, <3>1 DEF J!CloseElement
  <2>2. CASE UNCHANGED <<text, stack, next, populated, writer, owner, stray, dead>>
    BY <2>2, LiveStays
  <2> QED BY <1>4, <2>1, <2>2 DEF J!Close, J!Throw
<1>5. ASSUME NEW w \in Writers, J!Destroy(w) PROVE Live' /\ ~stray' /\ dead' # "unwinding"
  <2>1. CASE J!Closes(w) /\ J!CloseElement(w)
    <3>1. Live' /\ ~stray'
      BY <2>1, ElementCloses
    <3> QED BY <2>1, <3>1 DEF J!CloseElement
  <2>2. CASE ~(J!Closes(w) /\ J!CloseElement(w))
    <3>1. /\ writer[w] # NONE /\ ~J!Closes(w)
          /\ dead' = IF w \in J!ToSet(owner) /\ J!Last(owner) # w THEN "early" ELSE "unwinding"
          /\ UNCHANGED <<text, stack, next, populated, writer, owner, stray>>
      BY <1>5, <2>2 DEF J!Destroy
    <3>2. PICK k \in 1 .. Len(owner) : owner[k] = w
      BY <3>1 DEF Live, Elements
    <3>3. w \in J!ToSet(owner) /\ Len(owner) # 0
      <4>1. owner \in Seq(Writers \cup {NONE})
        BY DEF Live, WriterTypes
      <4> QED BY <3>2, <4>1 DEF J!ToSet
    <3>4. owner[Len(owner)] # w
      BY <3>1, <3>3, OwnerIsTop DEF J!Closes
    <3>5. dead' = "early"
      BY <3>1, <3>3, <3>4 DEF J!Last
    <3> QED BY <3>1, <3>5, LiveStays
  <2> QED BY <2>1, <2>2
<1>6. ASSUME NEW w \in Writers, NEW x \in Writers, J!Move(w, x) PROVE Live' /\ ~stray' /\ dead' # "unwinding"
  <2>1. UNCHANGED <<stray, dead>>
    BY <1>6 DEF J!Move
  <2> QED BY <1>6, <2>1, MoveKeepsLive
<1>7. CASE J!CloseRoot
  BY <1>7, LiveStays DEF J!CloseRoot
<1> QED BY <1>1, <1>2, <1>3, <1>4, <1>5, <1>6, <1>7 DEF J!Call

LEMMA WriterInit == ASSUME OInit, NoWrap PROVE WriterInv
<1>1. /\ text = << >> /\ stack = <<0>> /\ next = 1 % JsonWord /\ ~closed /\ populated = FALSE
      /\ writer = [w \in Writers |-> NONE] /\ dead = "no" /\ owner = << >> /\ ~stray
  BY DEF OInit, J!Init, J!RootToken
<1>2. next \in 1 .. JsonWord - 1
  BY <1>1, ObjectsAssumption DEF NoWrap, J!WriterAssumption
<1>3. WriterTypes
  <2>1. text \in Seq(Tokens) /\ owner \in Seq(Writers \cup {NONE})
    BY <1>1, Snoc
  <2>2. stack \in Seq(Nat)
    BY <1>1
  <2>3. writer \in [Writers -> J!State \cup {NONE}]
    BY <1>1
  <2> QED BY <1>1, <1>2, <2>1, <2>2, <2>3 DEF WriterTypes
<1>4. Elements
  BY <1>1, <1>2 DEF Elements
<1>5. Hears(<< >>, "root")
  <2>1. J!Reading(text) = At(<< >>, "root")
    BY <1>1, ReadingEmpty DEF J!Start, At
  <2>2. << >> \in Seq(J!Kinds) /\ Len(<< >>) = 0
    BY EmptySeq
  <2> QED BY <1>1, <2>1, <2>2 DEF Hears
<1>6. Live
  BY <1>3, <1>4, <1>5 DEF Live, Heard
<1> QED BY <1>1, <1>6, LiveValid DEF WriterInv

LEMMA WriterStep == ASSUME WriterInv, NoWrap', [ONext]_objectVars PROVE WriterInv'
<1>1. CASE J!Call
  <2>1. CASE closed
    <3>1. text' = text /\ stray' = stray /\ closed' /\ dead' = dead
      BY <1>1, <2>1, ClosedKeeps
    <3> QED BY <3>1 DEF WriterInv
  <2>2. CASE ~closed
    <3>1. Live' /\ ~stray' /\ dead' # "unwinding"
      BY <1>1, <2>2, WriterCallKeeps DEF WriterInv
    <3>2. J!Valid(text)'
      BY <3>1, LiveValid, PTL
    <3> QED BY <3>1, <3>2 DEF WriterInv
  <2> QED BY <2>1, <2>2
<1>2. CASE UNCHANGED jsonVars
  <2>1. UNCHANGED <<text, stack, next, closed, populated, writer, owner, stray, dead>>
    BY <1>2 DEF jsonVars
  <2>2. Live => Live'
    BY <2>1, LiveStays
  <2> QED BY <2>1, <2>2 DEF WriterInv
<1>3. J!Call \/ UNCHANGED jsonVars
  BY DEF ONext, objectVars, J!Next, J!vars, jsonVars
<1> QED BY <1>1, <1>2, <1>3

\* Whatever is called on the JSON writers, in whatever order: the text stays the
\* beginning of a document, only the innermost element writes, and the context
\* knows which that is, as long as the counter of the tokens does not wrap.
THEOREM WritersInStep == OSpec /\ []NoWrap => []InStep
<1>1. WriterInv => InStep
  BY WriterProperties
<1>2. OInit /\ NoWrap => WriterInv
  BY WriterInit
<1>3. WriterInv /\ NoWrap' /\ [ONext]_objectVars => WriterInv'
  BY WriterStep
<1> QED BY <1>1, <1>2, <1>3, PTL DEF OSpec

\* Closing by hand and by the unwinding of a scope leaves a whole document, and
\* no destructor of the innermost element ends the program.
THEOREM WritersCloseSafely == OSpec /\ []NoWrap => []ClosesSafely
<1>1. WriterInv => ClosesSafely
  BY WriterProperties
<1>2. OInit /\ NoWrap => WriterInv
  BY WriterInit
<1>3. WriterInv /\ NoWrap' /\ [ONext]_objectVars => WriterInv'
  BY WriterStep
<1> QED BY <1>1, <1>2, <1>3, PTL DEF OSpec

-----------------------------------------------------------------------------
(* ShmemMap: the regions of a process *)

Region == [addr : Nat, len : Nat \ {0}, object : Objects]
In(r, x) == r.addr <= x /\ x < r.addr + r.len

\* The pages of an object that a sequence of regions covers.
Covers(m, o, x) == \E k \in 1 .. Len(m) : m[k].object = o /\ In(m[k], x)

\* The regions are sorted by where they start, and none touches the next that is
\* of the same object; where lines share no page, no two regions do.
Sorted(m) == \A i, j \in 1 .. Len(m) : i < j => m[i].addr < m[j].addr
Clear(m) == \A i, j \in 1 .. Len(m), x \in Nat : In(m[i], x) /\ In(m[j], x) => i = j
Tight(m) == \A i, j \in 1 .. Len(m) : j = i + 1 => ~M!Mergeable(m[i], m[j])
Regions(m) == m \in Seq(Region) /\ Sorted(m) /\ Tight(m)

\* The k regions from a on are replaced by the region c.
Spliced(m, a, k, c, r) ==
  /\ r \in Seq(Region) /\ Len(r) = Len(m) - k + 1 /\ r[a] = c
  /\ \A j \in 1 .. a - 1 : r[j] = m[j]
  /\ \A j \in a + 1 .. Len(r) : r[j] = m[j + k - 1]

\* It fits there, and covers what they did and the line.
Fitting(m, a, k, c, line) ==
  /\ \A j \in 1 .. a - 1 : m[j].addr < c.addr
  /\ \A j \in a + k .. Len(m) : c.addr < m[j].addr
  /\ a > 1 => ~M!Mergeable(m[a - 1], c)
  /\ a + k <= Len(m) => ~M!Mergeable(c, m[a + k])
  /\ c.object = line.object /\ \A j \in a .. a + k - 1 : m[j].object = c.object
  /\ \A x \in Nat : In(c, x) <=> In(line, x) \/ \E j \in a .. a + k - 1 : In(m[j], x)

Away(m, line) == \A j \in 1 .. Len(m), x \in Nat : ~(In(m[j], x) /\ In(line, x))
Added(m, line, r) ==
  /\ Regions(r)
  /\ \A o \in Objects, x \in Nat : Covers(r, o, x) <=> Covers(m, o, x) \/ (line.object = o /\ In(line, x))
  /\ Clear(m) /\ Away(m, line) => Clear(r)

LEMMA SpliceAdds ==
  ASSUME NEW m, Regions(m), NEW a \in Nat \ {0}, NEW k \in Nat, a + k <= Len(m) + 1,
         NEW c \in Region, NEW line \in Region, NEW r, Spliced(m, a, k, c, r), Fitting(m, a, k, c, line)
  PROVE  Added(m, line, r)
<1> DEFINE n == Len(m)
           q == Len(r)
<1>1. /\ m \in Seq(Region) /\ n \in Nat /\ \A j \in 1 .. n : m[j] \in Region
      /\ r \in Seq(Region) /\ q \in Nat /\ q = n - k + 1 /\ \A j \in 1 .. q : r[j] \in Region
      /\ a \in 1 .. q
  BY DEF Regions, Spliced
<1>2. /\ r[a] = c /\ \A j \in 1 .. a - 1 : j \in 1 .. q /\ j \in 1 .. n /\ r[j] = m[j]
      /\ \A j \in a + 1 .. q : r[j] = m[j + k - 1] /\ j + k - 1 \in a + k .. n /\ j + k - 1 \in 1 .. n
  <2>1. r[a] = c /\ (\A j \in 1 .. a - 1 : r[j] = m[j]) /\ \A j \in a + 1 .. q : r[j] = m[j + k - 1]
    BY DEF Spliced
  <2> HIDE DEF n, q
  <2>2. \A j \in 1 .. a - 1 : j \in 1 .. q /\ j \in 1 .. n
    BY <1>1
  <2>3. \A j \in a + 1 .. q : j + k - 1 \in a + k .. n /\ j + k - 1 \in 1 .. n
    BY <1>1
  <2> QED BY <2>1, <2>2, <2>3
<1>3. \A j \in 1 .. q : j \in 1 .. a - 1 \/ j = a \/ j \in a + 1 .. q
  BY <1>1
<1>4. \A i, j \in 1 .. n : i < j => m[i].addr < m[j].addr
  BY DEF Regions, Sorted
<1> HIDE DEF n, q
<1>5. Sorted(r)
  <2>1. ASSUME NEW i \in 1 .. q, NEW j \in 1 .. q, i < j
        PROVE  r[i].addr < r[j].addr
    <3>1. CASE i \in 1 .. a - 1 /\ j \in 1 .. a - 1
      BY <1>2, <1>4, <2>1, <3>1
    <3>2. CASE i \in 1 .. a - 1 /\ j = a
      BY <1>2, <3>2 DEF Fitting
    <3>3. CASE i \in 1 .. a - 1 /\ j \in a + 1 .. q
      <4>1. i < j + k - 1
        BY <3>3
      <4> QED BY <1>2, <1>4, <3>3, <4>1
    <3>4. CASE i = a /\ j \in a + 1 .. q
      <4>1. c.addr < m[j + k - 1].addr
        BY <1>2, <3>4 DEF Fitting, n
      <4> QED BY <1>2, <3>4, <4>1
    <3>5. CASE i \in a + 1 .. q /\ j \in a + 1 .. q
      <4>1. i + k - 1 < j + k - 1
        BY <2>1, <3>5
      <4> QED BY <1>2, <1>4, <3>5, <4>1
    <3> QED BY <1>3, <2>1, <3>1, <3>2, <3>3, <3>4, <3>5
  <2> QED BY <2>1 DEF Sorted, q
<1>6. Tight(r)
  <2>0. \A i, j \in 1 .. n : j = i + 1 => ~M!Mergeable(m[i], m[j])
    BY DEF Regions, Tight, n
  <2>1. ASSUME NEW i \in 1 .. q, NEW j \in 1 .. q, j = i + 1
        PROVE  ~M!Mergeable(r[i], r[j])
    <3>1. CASE j \in 1 .. a - 1
      <4>1. i \in 1 .. a - 1
        BY <2>1, <3>1
      <4> QED BY <1>2, <2>0, <2>1, <3>1, <4>1
    <3>2. CASE j = a
      <4>1. i = a - 1 /\ i \in 1 .. a - 1 /\ a > 1
        BY <2>1, <3>2
      <4> QED BY <1>2, <3>2, <4>1 DEF Fitting
    <3>3. CASE i = a
      <4>1. j \in a + 1 .. q /\ j + k - 1 = a + k
        BY <2>1, <3>3
      <4>2. a + k <= n
        BY <1>1, <2>1, <3>3
      <4> QED BY <1>2, <3>3, <4>1, <4>2 DEF Fitting, n
    <3>4. CASE i \in a + 1 .. q
      <4>1. j \in a + 1 .. q /\ j + k - 1 = (i + k - 1) + 1
        BY <2>1, <3>4
      <4> QED BY <1>2, <2>0, <3>4, <4>1
    <3> QED BY <1>3, <2>1, <3>1, <3>2, <3>3, <3>4
  <2> QED BY <2>1 DEF Tight, q
<1>7. ASSUME NEW o \in Objects, NEW x \in Nat, Covers(r, o, x)
      PROVE  Covers(m, o, x) \/ (line.object = o /\ In(line, x))
  <2>1. PICK j \in 1 .. q : r[j].object = o /\ In(r[j], x)
    BY <1>7 DEF Covers, q
  <2>2. CASE j \in 1 .. a - 1
    BY <1>2, <2>1, <2>2 DEF Covers, n
  <2>3. CASE j \in a + 1 .. q
    BY <1>2, <2>1, <2>3 DEF Covers, n
  <2>4. CASE j = a
    <3>1. c.object = o /\ In(c, x)
      BY <1>2, <2>1, <2>4
    <3>2. In(line, x) \/ \E i \in a .. a + k - 1 : In(m[i], x)
      BY <3>1 DEF Fitting
    <3>3. ASSUME NEW i \in a .. a + k - 1, In(m[i], x) PROVE Covers(m, o, x)
      <4>1. i \in 1 .. n /\ m[i].object = o
        BY <1>1, <3>1 DEF Fitting, n
      <4> QED BY <3>3, <4>1 DEF Covers, n
    <3> QED BY <3>1, <3>2, <3>3 DEF Fitting
  <2> QED BY <1>3, <2>2, <2>3, <2>4
<1>8. ASSUME NEW o \in Objects, NEW x \in Nat, Covers(m, o, x) PROVE Covers(r, o, x)
  <2>1. PICK i \in 1 .. n : m[i].object = o /\ In(m[i], x)
    BY <1>8 DEF Covers, n
  <2>2. i \in 1 .. a - 1 \/ i \in a .. a + k - 1 \/ i \in a + k .. n
    BY <1>1
  <2>3. CASE i \in 1 .. a - 1
    BY <1>2, <2>1, <2>3 DEF Covers, q
  <2>4. CASE i \in a .. a + k - 1
    <3>1. In(c, x) /\ c.object = o
      BY <2>1, <2>4 DEF Fitting
    <3> QED BY <1>1, <1>2, <3>1 DEF Covers, q
  <2>5. CASE i \in a + k .. n
    <3>1. i - k + 1 \in a + 1 .. q /\ (i - k + 1) + k - 1 = i /\ i - k + 1 \in 1 .. q
      BY <1>1, <2>5
    <3>2. r[i - k + 1] = m[i]
      BY <1>2, <3>1
    <3> QED BY <2>1, <3>1, <3>2 DEF Covers, q
  <2> QED BY <2>2, <2>3, <2>4, <2>5
<1>9. ASSUME NEW o \in Objects, NEW x \in Nat, line.object = o, In(line, x) PROVE Covers(r, o, x)
  <2>1. In(c, x) /\ c.object = o
    BY <1>9 DEF Fitting
  <2> QED BY <1>1, <1>2, <2>1 DEF Covers, q
<1>10. ASSUME Clear(m), Away(m, line) PROVE Clear(r)
  <2>1. ASSUME NEW i \in 1 .. q, NEW j \in 1 .. q, i < j, NEW x \in Nat, In(r[i], x), In(r[j], x)
        PROVE  FALSE
    <3>0. \A u, v \in 1 .. n : In(m[u], x) /\ In(m[v], x) => u = v
      BY <1>10 DEF Clear, n
    \* No region that stays has a page of the new one.
    <3>1. ASSUME NEW u \in 1 .. n, u < a \/ a + k <= u, In(m[u], x) PROVE ~In(c, x)
      <4>1. ~In(line, x)
        BY <1>10, <3>1 DEF Away, n
      <4>2. \A v \in a .. a + k - 1 : v \in 1 .. n /\ v # u
        BY <1>1, <3>1
      <4>3. ~\E v \in a .. a + k - 1 : In(m[v], x)
        BY <3>0, <3>1, <4>2
      <4> QED BY <4>1, <4>3 DEF Fitting
    <3>2. CASE j \in 1 .. a - 1
      <4>1. i \in 1 .. a - 1
        BY <2>1, <3>2
      <4>2. In(m[i], x) /\ In(m[j], x) /\ i \in 1 .. n /\ j \in 1 .. n /\ i # j
        BY <1>2, <2>1, <3>2, <4>1
      <4> QED BY <3>0, <4>2
    <3>3. CASE j = a
      <4>1. i \in 1 .. a - 1
        BY <2>1, <3>3
      <4>2. i \in 1 .. n /\ i < a /\ In(m[i], x) /\ In(c, x)
        BY <1>2, <2>1, <3>3, <4>1
      <4> QED BY <3>1, <4>2
    <3>4. CASE j \in a + 1 .. q
      <4> DEFINE v == j + k - 1
      <4>1. v \in 1 .. n /\ a + k <= v /\ In(m[v], x)
        BY <1>2, <2>1, <3>4
      <4>2. CASE i \in 1 .. a - 1
        <5>1. i \in 1 .. n /\ In(m[i], x) /\ i # v
          BY <1>2, <2>1, <4>1, <4>2
        <5> HIDE DEF v
        <5> QED BY <3>0, <4>1, <5>1
      <4>3. CASE i = a
        <5>1. In(c, x)
          BY <1>2, <2>1, <4>3
        <5> HIDE DEF v
        <5> QED BY <3>1, <4>1, <5>1
      <4>4. CASE i \in a + 1 .. q
        <5>1. i + k - 1 \in 1 .. n /\ In(m[i + k - 1], x) /\ i + k - 1 # v
          BY <1>2, <2>1, <4>4
        <5> HIDE DEF v
        <5> QED BY <3>0, <4>1, <5>1
      <4> QED BY <1>3, <4>2, <4>3, <4>4
    <3> QED BY <1>3, <3>2, <3>3, <3>4
  <2>2. q \in Nat
    BY <1>1
  <2> QED BY <2>1, <2>2 DEF Clear, q
<1> QED BY <1>1, <1>5, <1>6, <1>7, <1>8, <1>9, <1>10 DEF Added, Regions

LEMMA ConcatIs ==
  ASSUME NEW A, NEW s \in Seq(A), NEW t \in Seq(A), NEW r, r = s \o t
  PROVE  /\ r \in Seq(A) /\ Len(r) = Len(s) + Len(t)
         /\ \A j \in 1 .. Len(s) : r[j] = s[j]
         /\ \A j \in Len(s) + 1 .. Len(r) : r[j] = t[j - Len(s)]
<1>1. /\ r \in Seq(A) /\ Len(r) = Len(s) + Len(t)
      /\ \A j \in 1 .. Len(s) + Len(t) : r[j] = IF j <= Len(s) THEN s[j] ELSE t[j - Len(s)]
  BY ConcatProperties
<1>2. Len(s) \in Nat /\ Len(t) \in Nat
  OBVIOUS
<1> QED BY <1>1, <1>2

\* r is m with e put in at i.
InsertedAt(A, m, i, e, r) ==
  /\ r \in Seq(A) /\ Len(r) = Len(m) + 1 /\ r[i] = e
  /\ \A j \in 1 .. i - 1 : r[j] = m[j]
  /\ \A j \in i + 1 .. Len(m) + 1 : r[j] = m[j - 1]

LEMMA InsertAtIs ==
  ASSUME NEW A, NEW m \in Seq(A), NEW i \in 1 .. Len(m), NEW e \in A, NEW r, r = M!InsertAt(m, i, e)
  PROVE  InsertedAt(A, m, i, e, r)
<1> DEFINE n == Len(m)
           s == SubSeq(m, 1, i - 1)
           t == SubSeq(m, i, n)
<1>0. n \in Nat /\ i \in 1 .. n
  OBVIOUS
<1>1. s \in Seq(A) /\ Len(s) = i - 1 /\ \A j \in 1 .. i - 1 : s[j] = m[j]
  OBVIOUS
<1>2. t \in Seq(A) /\ Len(t) = n - i + 1 /\ \A j \in 1 .. n - i + 1 : t[j] = m[i + j - 1]
  OBVIOUS
<1>3. r = s \o <<e>> \o t
  BY DEF M!InsertAt
<1> HIDE DEF s, t, n
<1> DEFINE u == s \o <<e>>
<1>4. u \in Seq(A) /\ Len(u) = i /\ u[i] = e /\ \A j \in 1 .. i - 1 : u[j] = m[j]
  BY <1>0, <1>1
<1>5. r = u \o t
  BY <1>3
<1> HIDE DEF u
<1>6. /\ r \in Seq(A) /\ Len(r) = i + (n - i + 1)
      /\ (\A j \in 1 .. i : r[j] = u[j]) /\ \A k \in i + 1 .. Len(r) : r[k] = t[k - i]
  <2>1. /\ r \in Seq(A) /\ Len(r) = Len(u) + Len(t)
        /\ (\A j \in 1 .. Len(u) : r[j] = u[j]) /\ \A j \in Len(u) + 1 .. Len(r) : r[j] = t[j - Len(u)]
    <3>1. u \in Seq(A) /\ t \in Seq(A)
      BY <1>2, <1>4
    <3> QED BY <1>5, <3>1, ConcatIs
  <2> QED BY <1>2, <1>4, <2>1
<1>7. ASSUME NEW j \in i + 1 .. n + 1 PROVE r[j] = m[j - 1]
  <2>1. r[j] = t[j - i] /\ j - i \in 1 .. n - i + 1
    BY <1>0, <1>6
  <2>2. i + (j - i) - 1 = j - 1
    BY <1>0
  <2> QED BY <1>2, <2>1, <2>2
<1> QED BY <1>0, <1>4, <1>6, <1>7 DEF n, InsertedAt

LEMMA RemoveAtIs ==
  ASSUME NEW A, NEW m \in Seq(A), NEW i \in 1 .. Len(m), NEW r, r = M!RemoveAt(m, i)
  PROVE  /\ r \in Seq(A) /\ Len(r) = Len(m) - 1
         /\ \A j \in 1 .. i - 1 : r[j] = m[j]
         /\ \A j \in i .. Len(m) - 1 : r[j] = m[j + 1]
<1> DEFINE n == Len(m)
           s == SubSeq(m, 1, i - 1)
           t == SubSeq(m, i + 1, n)
<1>0. n \in Nat /\ i \in 1 .. n
  OBVIOUS
<1>1. s \in Seq(A) /\ Len(s) = i - 1 /\ \A j \in 1 .. i - 1 : s[j] = m[j]
  OBVIOUS
<1>2. t \in Seq(A) /\ Len(t) = n - i /\ \A j \in 1 .. n - i : t[j] = m[i + j]
  OBVIOUS
<1>3. r = s \o t
  BY DEF M!RemoveAt
<1> HIDE DEF s, t, n
<1>4. /\ r \in Seq(A) /\ Len(r) = (i - 1) + (n - i)
      /\ \A j \in 1 .. i - 1 : r[j] = s[j]
      /\ \A j \in (i - 1) + 1 .. Len(r) : r[j] = t[j - (i - 1)]
  BY <1>1, <1>2, <1>3, ConcatIs
<1>5. ASSUME NEW j \in i .. n - 1 PROVE r[j] = m[j + 1]
  <2>1. r[j] = t[j - (i - 1)] /\ j - (i - 1) \in 1 .. n - i
    BY <1>0, <1>4
  <2>2. i + (j - (i - 1)) = j + 1
    BY <1>0
  <2> QED BY <1>2, <2>1, <2>2
<1> QED BY <1>0, <1>1, <1>4, <1>5 DEF n

\* What covers two regions that touch.
Joins(r, a, b) == r \in Region /\ r.addr = a.addr /\ r.len = a.len + b.len /\ r.object = a.object

LEMMA MovedIs ==
  ASSUME NEW a \in Region, NEW x \in Nat
  PROVE  /\ [a EXCEPT !.addr = x] \in Region /\ [a EXCEPT !.addr = x].addr = x
         /\ [a EXCEPT !.addr = x].len = a.len /\ [a EXCEPT !.addr = x].object = a.object
BY DEF Region

LEMMA SizedIs ==
  ASSUME NEW a \in Region, NEW y \in Nat \ {0}
  PROVE  /\ [a EXCEPT !.len = y] \in Region /\ [a EXCEPT !.len = y].len = y
         /\ [a EXCEPT !.len = y].addr = a.addr /\ [a EXCEPT !.len = y].object = a.object
BY DEF Region

LEMMA MergedIs ==
  ASSUME NEW a \in Region, NEW b \in Region, a.object = b.object, a.addr + a.len = b.addr
  PROVE  Joins(M!Merged(a, b), a, b) /\ Joins(M!Merged(b, a), a, b)
<1>1. /\ a.addr \in Nat /\ a.len \in Nat \ {0} /\ b.addr \in Nat /\ b.len \in Nat \ {0}
      /\ b.len + a.len = a.len + b.len /\ a.len + b.len \in Nat \ {0}
  BY DEF Region
<1>2. ~(b.addr < a.addr) /\ a.addr < b.addr
  BY <1>1
<1> DEFINE p == [a EXCEPT !.addr = IF b.addr < a.addr THEN b.addr ELSE a.addr]
           q == [b EXCEPT !.addr = IF a.addr < b.addr THEN a.addr ELSE b.addr]
<1>3. p \in Region /\ p.addr = a.addr /\ p.len = a.len /\ p.object = a.object
  <2> DEFINE x == IF b.addr < a.addr THEN b.addr ELSE a.addr
  <2>1. x = a.addr /\ x \in Nat
    BY <1>1, <1>2
  <2> HIDE DEF x
  <2>2. [a EXCEPT !.addr = x] \in Region /\ [a EXCEPT !.addr = x].addr = x
        /\ [a EXCEPT !.addr = x].len = a.len /\ [a EXCEPT !.addr = x].object = a.object
    BY <2>1, MovedIs, Zenon
  <2> QED BY <2>1, <2>2, Zenon DEF x
<1>4. q \in Region /\ q.addr = a.addr /\ q.len = b.len /\ q.object = a.object
  <2> DEFINE x == IF a.addr < b.addr THEN a.addr ELSE b.addr
  <2>1. x = a.addr /\ x \in Nat
    BY <1>1, <1>2
  <2> HIDE DEF x
  <2>2. [b EXCEPT !.addr = x] \in Region /\ [b EXCEPT !.addr = x].addr = x
        /\ [b EXCEPT !.addr = x].len = b.len /\ [b EXCEPT !.addr = x].object = b.object
    BY <2>1, MovedIs, Zenon
  <2> QED BY <2>1, <2>2, Zenon DEF x
<1>5. M!Merged(a, b) = [p EXCEPT !.len = a.len + b.len] /\ M!Merged(b, a) = [q EXCEPT !.len = b.len + a.len]
  BY Zenon DEF M!Merged
<1> HIDE DEF p, q
<1>6. ASSUME NEW r, NEW s \in Region, NEW y \in Nat \ {0}, r = [s EXCEPT !.len = y]
      PROVE  r \in Region /\ r.addr = s.addr /\ r.len = y /\ r.object = s.object
  BY <1>6, SizedIs, Zenon
<1>7. ASSUME NEW r, NEW s \in Region, NEW y \in Nat \ {0}, r = [s EXCEPT !.len = y],
             s.addr = a.addr, s.object = a.object, y = a.len + b.len
      PROVE  Joins(r, a, b)
  BY <1>6, <1>7 DEF Joins
<1> QED BY <1>1, <1>3, <1>4, <1>5, <1>7, Zenon

\* Of two regions the one that starts first has to end where the other starts for
\* them to be merged.
LEMMA MergeableIs ==
  ASSUME NEW a \in Region, NEW b \in Region, a.addr < b.addr
  PROVE  /\ M!Mergeable(a, b) <=> (a.object = b.object /\ a.addr + a.len = b.addr)
         /\ M!Mergeable(b, a) <=> (a.object = b.object /\ a.addr + a.len = b.addr)
BY DEF M!Mergeable, Region

\* The place of a line among the regions.
Behind(m, line) == {i \in 1 .. Len(m) : line.addr < m[i].addr}
Placed(m, line, a) ==
  /\ a \in 1 .. Len(m) + 1
  /\ \A j \in 1 .. a - 1 : m[j].addr < line.addr
  /\ \A j \in a .. Len(m) : line.addr < m[j].addr

LEMMA LeastIs ==
  ASSUME NEW S, S \subseteq Nat, S # {}
  PROVE  M!Min(S) \in S /\ \A y \in S : M!Min(S) <= y
<1>1. \E x \in S : \A y \in S : x <= y
  <2>1. PICK x \in S : \A y \in S : ~(y < x)
    BY Least
  <2>2. \A y \in S : x <= y
    BY <2>1
  <2> QED BY <2>2
<1> QED BY <1>1, Zenon DEF M!Min

LEMMA PlaceIs ==
  ASSUME NEW m, Regions(m), NEW line \in Region, ~M!Duplicate(m, line)
  PROVE  /\ Behind(m, line) = {} => Placed(m, line, Len(m) + 1)
         /\ Behind(m, line) # {} => /\ M!Min(Behind(m, line)) \in 1 .. Len(m)
                                    /\ Placed(m, line, M!Min(Behind(m, line)))
<1> DEFINE n == Len(m)
<1>1. n \in Nat /\ DOMAIN m = 1 .. n /\ \A j \in 1 .. n : m[j] \in Region
  BY DEF Regions
<1>2. line.addr \in Nat /\ \A j \in 1 .. n : m[j].addr \in Nat
  BY <1>1 DEF Region
<1>3. \A i, j \in 1 .. n : i < j => m[i].addr < m[j].addr
  BY DEF Regions, Sorted
<1>4. \A j \in 1 .. n : m[j].addr # line.addr
  BY <1>1 DEF M!Duplicate
<1> HIDE DEF n
<1>5. CASE Behind(m, line) = {}
  <2>1. \A j \in 1 .. n : m[j].addr < line.addr
    BY <1>2, <1>4, <1>5 DEF Behind, n
  <2> QED BY <1>1, <1>5, <2>1 DEF Placed, n
<1>6. CASE Behind(m, line) # {}
  <2> DEFINE a == M!Min(Behind(m, line))
  <2>1. a \in Behind(m, line) /\ \A i \in Behind(m, line) : a <= i
    <3>1. Behind(m, line) \subseteq Nat
      BY DEF Behind
    <3> QED BY <1>6, <3>1, LeastIs
  <2> HIDE DEF a
  <2>2. a \in 1 .. n /\ line.addr < m[a].addr
    BY <2>1 DEF Behind, n
  <2>3. \A j \in 1 .. a - 1 : m[j].addr < line.addr
    <3>1. \A j \in 1 .. a - 1 : j \in 1 .. n /\ j < a
      BY <1>1, <2>2
    <3>2. \A j \in 1 .. a - 1 : ~(line.addr < m[j].addr)
      BY <2>1, <2>2, <3>1 DEF Behind, n
    <3> QED BY <1>2, <1>4, <3>1, <3>2
  <2>4. \A j \in a .. n : line.addr < m[j].addr
    <3>1. \A j \in a .. n : j \in 1 .. n /\ (j = a \/ a < j)
      BY <1>1, <2>2
    <3> QED BY <1>2, <1>3, <2>2, <3>1
  <2> QED BY <1>1, <1>6, <2>2, <2>3, <2>4 DEF Placed, a, n
<1> QED BY <1>5, <1>6

\* A line that starts where no region does becomes part of the regions.
LEMMA InsertAdds ==
  ASSUME NEW m, Regions(m), NEW line \in Region, ~M!Duplicate(m, line)
  PROVE  Added(m, line, M!insert(m, line))
<1> DEFINE n == Len(m)
           r == M!insert(m, line)
           behind == {i \in DOMAIN m : line.addr < m[i].addr}
<1> SUFFICES Added(m, line, r)
  OBVIOUS
<1>1. /\ m \in Seq(Region) /\ n \in Nat /\ DOMAIN m = 1 .. n /\ \A j \in 1 .. n : m[j] \in Region
      /\ behind = Behind(m, line)
  BY DEF Regions, Behind
<1>2. /\ line.addr \in Nat /\ line.len \in Nat \ {0}
      /\ \A j \in 1 .. n : m[j].addr \in Nat /\ m[j].len \in Nat \ {0}
  BY <1>1 DEF Region
\* The line is a region of its own.
<1>3. ASSUME NEW a, Placed(m, line, a), Spliced(m, a, 0, line, r),
             a > 1 => ~M!Mergeable(m[a - 1], line), a <= n => ~M!Mergeable(line, m[a])
      PROVE  Added(m, line, r)
  <2>1. a \in Nat \ {0} /\ a + 0 = a /\ a <= n + 1 /\ a .. a + 0 - 1 = {} /\ 0 \in Nat
    BY <1>1, <1>3 DEF Placed
  <2> HIDE DEF r, n
  <2>2. Fitting(m, a, 0, line, line)
    BY <1>3, <2>1 DEF Placed, Fitting, n
  <2> QED BY <1>3, <2>1, <2>2, SpliceAdds DEF n
\* It joins the region behind it.
<1>4. ASSUME NEW a \in 1 .. n, Placed(m, line, a), NEW c, Joins(c, line, m[a]), Spliced(m, a, 1, c, r),
             line.object = m[a].object, line.addr + line.len = m[a].addr,
             a > 1 => ~M!Mergeable(m[a - 1], c)
      PROVE  Added(m, line, r)
  <2>1. a \in Nat \ {0} /\ a + 1 <= n + 1 /\ a .. a + 1 - 1 = {a} /\ 1 \in Nat /\ m[a] \in Region
    BY <1>1, <1>4
  <2>2. c \in Region /\ c.addr = line.addr /\ c.len = line.len + m[a].len /\ c.object = line.object
    BY <1>4 DEF Joins
  <2>3. c.addr + c.len = m[a].addr + m[a].len
    BY <1>2, <1>4, <2>2
  <2>4. \A j \in a + 1 .. n : j \in 1 .. n /\ j \in a .. n /\ c.addr < m[j].addr
    BY <1>1, <1>4, <2>1, <2>2 DEF Placed
  <2>5. a + 1 <= n => ~M!Mergeable(c, m[a + 1])
    <3> SUFFICES ASSUME a + 1 <= n PROVE ~M!Mergeable(c, m[a + 1])
      OBVIOUS
    <3>1. a + 1 \in 1 .. n /\ m[a + 1] \in Region /\ ~M!Mergeable(m[a], m[a + 1])
      BY <1>1, <2>1 DEF Regions, Tight
    <3>2. m[a].addr < m[a + 1].addr /\ c.addr < m[a + 1].addr
      BY <1>1, <2>4, <3>1 DEF Regions, Sorted
    <3> QED BY <1>4, <2>1, <2>2, <2>3, <3>1, <3>2, MergeableIs
  <2>6. \A x \in Nat : In(c, x) <=> In(line, x) \/ In(m[a], x)
    <3> DEFINE d == m[a]
    <3>1. /\ d.addr \in Nat /\ d.len \in Nat \ {0} /\ line.addr + line.len = d.addr
          /\ c.addr = line.addr /\ c.len = line.len + d.len
      BY <1>2, <1>4, <2>1, <2>2
    <3> HIDE DEF d
    <3>2. \A x \in Nat : In(c, x) <=> In(line, x) \/ In(d, x)
      BY <1>2, <3>1 DEF In
    <3> QED BY <3>2 DEF d
  <2> HIDE DEF r
  <2>7. Fitting(m, a, 1, c, line)
    <3>1. \A j \in 1 .. a - 1 : m[j].addr < c.addr
      BY <1>4, <2>2 DEF Placed
    <3>2. \A j \in a + 1 .. n : c.addr < m[j].addr
      BY <2>4
    <3>3. \A x \in Nat : In(c, x) <=> In(line, x) \/ \E j \in a .. a + 1 - 1 : In(m[j], x)
      BY <2>1, <2>6, Zenon
    <3>4. \A j \in a .. a + 1 - 1 : m[j].object = c.object
      BY <1>4, <2>1, <2>2
    <3> QED BY <1>4, <2>2, <2>5, <3>1, <3>2, <3>3, <3>4 DEF Fitting
  <2> QED BY <1>4, <2>1, <2>2, <2>7, SpliceAdds
\* It joins the region before it.
<1>5. ASSUME NEW a \in 1 .. n, Placed(m, line, a + 1), NEW c, Joins(c, m[a], line), Spliced(m, a, 1, c, r),
             line.object = m[a].object, m[a].addr + m[a].len = line.addr,
             a + 1 <= n => ~M!Mergeable(line, m[a + 1])
      PROVE  Added(m, line, r)
  <2>1. a \in Nat \ {0} /\ a + 1 <= n + 1 /\ a .. a + 1 - 1 = {a} /\ 1 \in Nat /\ m[a] \in Region
    BY <1>1, <1>5
  <2>2. c \in Region /\ c.addr = m[a].addr /\ c.len = m[a].len + line.len /\ c.object = line.object
    BY <1>5 DEF Joins
  <2>3. c.addr + c.len = line.addr + line.len
    BY <1>2, <1>5, <2>2
  <2>4. /\ \A j \in 1 .. a - 1 : j \in 1 .. n /\ m[j].addr < m[a].addr
        /\ \A j \in a + 1 .. n : j \in 1 .. n /\ m[a].addr < m[j].addr
    BY <1>1, <2>1 DEF Regions, Sorted
  <2>5. a > 1 => ~M!Mergeable(m[a - 1], c)
    <3> SUFFICES ASSUME a > 1 PROVE ~M!Mergeable(m[a - 1], c)
      OBVIOUS
    <3>1. a - 1 \in 1 .. n /\ a = (a - 1) + 1 /\ a - 1 \in 1 .. a - 1 /\ m[a - 1] \in Region
      BY <1>1, <2>1
    <3>2. ~M!Mergeable(m[a - 1], m[a]) /\ m[a - 1].addr < m[a].addr
      BY <2>1, <2>4, <3>1 DEF Regions, Tight
    <3> QED BY <1>5, <2>1, <2>2, <3>1, <3>2, MergeableIs
  <2>6. \A x \in Nat : In(c, x) <=> In(line, x) \/ In(m[a], x)
    <3> DEFINE d == m[a]
    <3>1. /\ d.addr \in Nat /\ d.len \in Nat \ {0} /\ d.addr + d.len = line.addr
          /\ c.addr = d.addr /\ c.len = d.len + line.len
      BY <1>2, <1>5, <2>1, <2>2
    <3> HIDE DEF d
    <3>2. \A x \in Nat : In(c, x) <=> In(line, x) \/ In(d, x)
      BY <1>2, <3>1 DEF In
    <3> QED BY <3>2 DEF d
  <2>8. a + 1 <= n => ~M!Mergeable(c, m[a + 1])
    <3> SUFFICES ASSUME a + 1 <= n PROVE ~M!Mergeable(c, m[a + 1])
      OBVIOUS
    <3>1. a + 1 \in a + 1 .. n /\ m[a + 1] \in Region
      BY <1>1, <2>1
    <3>2. line.addr < m[a + 1].addr /\ c.addr < m[a + 1].addr
      BY <1>5, <2>2, <2>4, <3>1 DEF Placed
    <3> QED BY <1>5, <2>2, <2>3, <3>1, <3>2, MergeableIs
  <2> HIDE DEF r
  <2>7. Fitting(m, a, 1, c, line)
    <3>1. \A j \in 1 .. a - 1 : m[j].addr < c.addr
      BY <2>2, <2>4
    <3>2. \A j \in a + 1 .. n : c.addr < m[j].addr
      BY <2>2, <2>4
    <3>3. \A x \in Nat : In(c, x) <=> In(line, x) \/ \E j \in a .. a + 1 - 1 : In(m[j], x)
      BY <2>1, <2>6, Zenon
    <3>4. \A j \in a .. a + 1 - 1 : m[j].object = c.object
      BY <1>5, <2>1, <2>2
    <3> QED BY <2>2, <2>5, <2>8, <3>1, <3>2, <3>3, <3>4 DEF Fitting
  <2> QED BY <1>5, <2>1, <2>2, <2>7, SpliceAdds
\* It joins both.
<1>6. ASSUME NEW a \in 1 .. n, a + 1 <= n, Placed(m, line, a + 1), NEW b, Joins(b, line, m[a + 1]),
             NEW c, Joins(c, m[a], b), Spliced(m, a, 2, c, r),
             line.object = m[a].object, m[a].addr + m[a].len = line.addr,
             line.object = m[a + 1].object, line.addr + line.len = m[a + 1].addr
      PROVE  Added(m, line, r)
  <2>1. /\ a \in Nat \ {0} /\ a + 2 <= n + 1 /\ a .. a + 2 - 1 = {a, a + 1} /\ 2 \in Nat
        /\ a + 1 \in 1 .. n /\ m[a] \in Region /\ m[a + 1] \in Region
    BY <1>1, <1>6
  <2>2. /\ c \in Region /\ c.addr = m[a].addr /\ c.object = line.object
        /\ c.len = m[a].len + (line.len + m[a + 1].len)
    BY <1>6 DEF Joins
  <2>3. c.addr + c.len = m[a + 1].addr + m[a + 1].len
    <3> DEFINE d == m[a]
               f == m[a + 1]
    <3>1. /\ d.addr \in Nat /\ d.len \in Nat /\ f.addr \in Nat /\ f.len \in Nat
          /\ d.addr + d.len = line.addr /\ line.addr + line.len = f.addr
          /\ c.addr = d.addr /\ c.len = d.len + (line.len + f.len)
      BY <1>2, <1>6, <2>1, <2>2
    <3> HIDE DEF d, f
    <3>2. c.addr + c.len = f.addr + f.len
      BY <1>2, <3>1
    <3> QED BY <3>2 DEF f
  <2>4. /\ \A j \in 1 .. a - 1 : j \in 1 .. n /\ m[j].addr < m[a].addr
        /\ \A j \in a + 2 .. n : j \in 1 .. n /\ m[a].addr < m[j].addr /\ m[a + 1].addr < m[j].addr
    BY <1>1, <2>1 DEF Regions, Sorted
  <2>5. a > 1 => ~M!Mergeable(m[a - 1], c)
    <3> SUFFICES ASSUME a > 1 PROVE ~M!Mergeable(m[a - 1], c)
      OBVIOUS
    <3>1. a - 1 \in 1 .. n /\ a = (a - 1) + 1 /\ a - 1 \in 1 .. a - 1 /\ m[a - 1] \in Region
      BY <1>1, <2>1
    <3>2. ~M!Mergeable(m[a - 1], m[a]) /\ m[a - 1].addr < m[a].addr
      BY <2>1, <2>4, <3>1 DEF Regions, Tight
    <3>3. c.object = m[a].object /\ c.addr = m[a].addr
      BY <1>6, <2>2
    <3> QED BY <2>1, <2>2, <3>1, <3>2, <3>3, MergeableIs
  <2>6. a + 2 <= n => ~M!Mergeable(c, m[a + 2])
    <3> SUFFICES ASSUME a + 2 <= n PROVE ~M!Mergeable(c, m[a + 2])
      OBVIOUS
    <3>1. a + 2 \in 1 .. n /\ a + 2 = (a + 1) + 1 /\ a + 2 \in a + 2 .. n /\ m[a + 2] \in Region
      BY <1>1, <2>1
    <3>2. ~M!Mergeable(m[a + 1], m[a + 2]) /\ m[a + 1].addr < m[a + 2].addr /\ c.addr < m[a + 2].addr
      BY <2>1, <2>2, <2>4, <3>1 DEF Regions, Tight
    <3>3. c.object = m[a + 1].object /\ c.addr + c.len = m[a + 1].addr + m[a + 1].len
      BY <1>6, <2>2, <2>3
    <3> DEFINE d == m[a + 1]
               f == m[a + 2]
    <3>4. d \in Region /\ f \in Region /\ d.addr < f.addr /\ c.addr < f.addr
      BY <2>1, <3>1, <3>2, <3>3
    <3>5. ~M!Mergeable(d, f) /\ c.object = d.object /\ c.addr + c.len = d.addr + d.len
      BY <3>2, <3>3
    <3> HIDE DEF d, f
    <3>6. M!Mergeable(c, f) <=> M!Mergeable(d, f)
      BY <2>2, <3>4, <3>5, MergeableIs
    <3> QED BY <3>5, <3>6 DEF f
  <2>7. \A x \in Nat : In(c, x) <=> In(line, x) \/ In(m[a], x) \/ In(m[a + 1], x)
    <3> DEFINE d == m[a]
               f == m[a + 1]
    <3>1. /\ d.addr \in Nat /\ d.len \in Nat /\ f.addr \in Nat /\ f.len \in Nat
          /\ d.addr + d.len = line.addr /\ line.addr + line.len = f.addr
          /\ c.addr = d.addr /\ c.len = d.len + (line.len + f.len)
      BY <1>2, <1>6, <2>1, <2>2
    <3> HIDE DEF d, f
    <3>2. ASSUME NEW x \in Nat PROVE In(c, x) <=> (In(line, x) \/ In(d, x) \/ In(f, x))
      <4>1. In(c, x) <=> d.addr <= x /\ x < d.addr + (d.len + (line.len + f.len))
        BY <3>1 DEF In
      <4>2. In(d, x) <=> d.addr <= x /\ x < line.addr
        BY <3>1 DEF In
      <4>3. In(line, x) <=> line.addr <= x /\ x < f.addr
        BY <3>1 DEF In
      <4>4. In(f, x) <=> f.addr <= x /\ x < f.addr + f.len
        BY DEF In
      <4>5. d.addr + (d.len + (line.len + f.len)) = f.addr + f.len
        BY <1>2, <3>1
      <4>6. d.addr <= line.addr /\ line.addr <= f.addr /\ f.addr <= f.addr + f.len
        <5>1. d.addr <= d.addr + d.len /\ f.addr <= f.addr + f.len
          BY <3>1
        <5>2. line.addr <= line.addr + line.len
          BY <1>2
        <5> QED BY <3>1, <5>1, <5>2
      <4> DEFINE p == d.addr
                 q == line.addr
                 s == f.addr
                 t == f.addr + f.len
      <4>7. p \in Nat /\ q \in Nat /\ s \in Nat /\ t \in Nat
        BY <1>2, <3>1 DEF Region
      <4>8. p <= q /\ q <= s /\ s <= t
        BY <4>6
      <4>9. /\ In(c, x) <=> (p <= x /\ x < t)
            /\ In(d, x) <=> (p <= x /\ x < q)
            /\ In(line, x) <=> (q <= x /\ x < s)
            /\ In(f, x) <=> (s <= x /\ x < t)
        BY <4>1, <4>2, <4>3, <4>4, <4>5
      <4> HIDE DEF p, q, s, t
      <4> QED BY <4>7, <4>8, <4>9
    <3> QED BY <3>2 DEF d, f
  <2> HIDE DEF r
  <2>8. Fitting(m, a, 2, c, line)
    <3>1. \A j \in 1 .. a - 1 : m[j].addr < c.addr
      BY <2>2, <2>4
    <3>2. \A j \in a + 2 .. n : c.addr < m[j].addr
      BY <2>2, <2>4
    <3>3. \A x \in Nat : In(c, x) <=> In(line, x) \/ \E j \in a .. a + 2 - 1 : In(m[j], x)
      BY <2>1, <2>7, Zenon
    <3>4. \A j \in a .. a + 2 - 1 : m[j].object = c.object
      BY <1>6, <2>1, <2>2
    <3> QED BY <2>2, <2>5, <2>6, <3>1, <3>2, <3>3, <3>4 DEF Fitting
  <2> QED BY <1>6, <2>1, <2>2, <2>8, SpliceAdds
<1>7. CASE behind = {}
  <2>0. Placed(m, line, n + 1) /\ r = M!InsertLast(m, line)
    BY <1>1, <1>7, PlaceIs DEF M!insert
  <2>1. CASE m # << >> /\ M!Mergeable(m[n], line)
    <3> DEFINE c == M!Merged(m[n], line)
    <3>1. n \in 1 .. n /\ m[n] \in Region /\ m[n].addr < line.addr
      <4>1. n # 0
        BY <1>1, <2>1
      <4> QED BY <1>1, <2>0, <4>1 DEF Placed
    <3>2. line.object = m[n].object /\ m[n].addr + m[n].len = line.addr
      BY <2>1, <3>1, MergeableIs
    <3>3. Joins(c, m[n], line)
      BY <3>1, <3>2, MergedIs
    <3>4. r = [m EXCEPT ![n] = c]
      BY <2>0, <2>1 DEF M!InsertLast, M!Last
    <3> HIDE DEF c, r
    <3>5. Spliced(m, n, 1, c, r)
      BY <1>1, <3>1, <3>3, <3>4 DEF Spliced, Joins
    <3> HIDE DEF n
    <3> QED BY <1>1, <1>5, <2>0, <3>1, <3>2, <3>3, <3>5 DEF r
  <2>2. CASE ~(m # << >> /\ M!Mergeable(m[n], line))
    <3>1. r = Append(m, line)
      BY <2>0, <2>2 DEF M!InsertLast, M!Last
    <3>2. Spliced(m, n + 1, 0, line, r)
      BY <1>1, <3>1 DEF Spliced
    <3>3. n + 1 > 1 => ~M!Mergeable(m[(n + 1) - 1], line)
      BY <1>1, <2>2
    <3>4. n + 1 <= n => ~M!Mergeable(line, m[n + 1])
      BY <1>1
    <3> HIDE DEF r, n
    <3> QED BY <1>3, <2>0, <3>2, <3>3, <3>4, Zenon
  <2> QED BY <2>1, <2>2
<1>8. CASE behind # {}
  <2> DEFINE i == M!Min(behind)
  <2>0. i \in 1 .. n /\ Placed(m, line, i) /\ r = M!InsertBefore(m, i, line)
    <3>1. i \in 1 .. n /\ Placed(m, line, i)
      BY <1>1, <1>8, PlaceIs
    <3> QED BY <1>8, <3>1 DEF M!insert
  <2> HIDE DEF i
  <2> DEFINE b == M!Merged(m[i], line)
             p == i - 1
  <2>1. m[i] \in Region /\ line.addr < m[i].addr
    BY <1>1, <2>0 DEF Placed
  <2>2. p > 0 => p \in 1 .. n /\ p + 1 = i /\ m[p] \in Region /\ m[p].addr < line.addr
    BY <1>1, <2>0 DEF Placed
  <2>3. p \in Nat /\ (i > 1 <=> p > 0)
    BY <2>0
  <2>4. CASE M!Mergeable(m[i], line)
    <3>1. line.object = m[i].object /\ line.addr + line.len = m[i].addr
      BY <2>1, <2>4, MergeableIs
    <3>2. Joins(b, line, m[i])
      BY <2>1, <3>1, MergedIs
    <3>3. b \in Region /\ b.addr = line.addr /\ b.object = line.object
      BY <3>2 DEF Joins
    <3> HIDE DEF b
    <3>4. CASE p > 0 /\ M!Mergeable(b, m[p])
      <4> DEFINE c == M!Merged(b, m[p])
                 s == [m EXCEPT ![i] = c]
      <4>1. line.object = m[p].object /\ m[p].addr + m[p].len = line.addr
        BY <2>2, <3>3, <3>4, MergeableIs
      <4>2. Joins(c, m[p], b)
        BY <2>2, <3>3, <3>4, <4>1, MergedIs
      <4>3. r = M!RemoveAt(s, p)
        BY <2>0, <2>4, <3>4 DEF M!InsertBefore, b
      <4>4. c \in Region
        BY <4>2 DEF Joins
      <4> HIDE DEF c
      <4>5. s \in Seq(Region) /\ Len(s) = n /\ s[i] = c /\ \A j \in 1 .. n : j # i => s[j] = m[j]
        BY <1>1, <2>0, <4>4
      <4> HIDE DEF s, r, n
      <4>6. /\ r \in Seq(Region) /\ Len(r) = n - 1
            /\ \A j \in 1 .. p - 1 : r[j] = s[j]
            /\ \A j \in p .. n - 1 : r[j] = s[j + 1]
        <5>1. p \in 1 .. n /\ s \in Seq(Region) /\ n = Len(s)
          BY <2>2, <3>4, <4>5
        <5> HIDE DEF p
        <5>2. p \in 1 .. Len(s)
          BY <5>1
        <5>3. /\ r \in Seq(Region) /\ Len(r) = Len(s) - 1
              /\ \A j \in 1 .. p - 1 : r[j] = s[j]
              /\ \A j \in p .. Len(s) - 1 : r[j] = s[j + 1]
          <6>1. r = M!RemoveAt(s, p) /\ s \in Seq(Region)
            BY <4>3, <5>1
          <6> QED BY <5>2, <6>1, RemoveAtIs
        <5> QED BY <5>1, <5>3, Zenon
      <4> HIDE DEF p
      <4>7. Spliced(m, p, 2, c, r)
        <5>0. p \in 1 .. n /\ i = p + 1 /\ n \in Nat /\ i \in 1 .. n /\ Len(r) = Len(m) - 2 + 1
          BY <1>1, <2>0, <2>2, <3>4, <4>6 DEF n
        <5>1. r[p] = c /\ \A j \in 1 .. p - 1 : r[j] = m[j]
          BY <4>5, <4>6, <5>0
        <5>2. ASSUME NEW j \in p + 1 .. n - 1 PROVE r[j] = m[j + 2 - 1]
          <6>1. j \in p .. n - 1 /\ j + 1 # i /\ j + 1 \in 1 .. n /\ j + 2 - 1 = j + 1
            BY <5>0
          <6> QED BY <4>5, <4>6, <6>1
        <5> QED BY <4>6, <5>0, <5>1, <5>2 DEF Spliced
      <4>8. p \in 1 .. n /\ p + 1 <= n /\ p + 1 = i
        BY <1>1, <2>0, <2>2, <3>4
      <4> QED BY <1>6, <2>0, <3>1, <3>2, <4>1, <4>2, <4>7, <4>8, Zenon
    <3>5. CASE ~(p > 0 /\ M!Mergeable(b, m[p]))
      <4>1. r = [m EXCEPT ![i] = b]
        BY <2>0, <2>4, <3>5 DEF M!InsertBefore, b
      <4> HIDE DEF r
      <4>2. Spliced(m, i, 1, b, r)
        BY <1>1, <2>0, <3>3, <4>1 DEF Spliced
      <4>3. i > 1 => ~M!Mergeable(m[i - 1], b)
        BY <2>3, <3>5 DEF M!Mergeable
      <4> HIDE DEF n
      <4> QED BY <1>4, <2>0, <3>1, <3>2, <4>2, <4>3, Zenon
    <3> QED BY <3>4, <3>5
  <2>5. CASE ~M!Mergeable(m[i], line) /\ p > 0 /\ M!Mergeable(m[p], line)
    <3> DEFINE c == M!Merged(m[p], line)
    <3>1. line.object = m[p].object /\ m[p].addr + m[p].len = line.addr
      BY <2>2, <2>5, MergeableIs
    <3>2. Joins(c, m[p], line)
      BY <2>2, <2>5, <3>1, MergedIs
    <3>3. r = [m EXCEPT ![p] = c]
      BY <2>0, <2>5 DEF M!InsertBefore
    <3>4. c \in Region
      BY <3>2 DEF Joins
    <3> HIDE DEF c, r
    <3>5. p \in 1 .. n /\ p + 1 = i
      BY <2>2, <2>5
    <3> HIDE DEF p
    <3>6. Spliced(m, p, 1, c, r)
      BY <1>1, <3>3, <3>4, <3>5 DEF Spliced
    <3>7. p + 1 <= n => ~M!Mergeable(line, m[p + 1])
      BY <2>5, <3>5 DEF M!Mergeable
    <3>8. Placed(m, line, p + 1)
      BY <2>0, <3>5
    <3> HIDE DEF n
    <3> QED BY <1>5, <3>1, <3>2, <3>5, <3>6, <3>7, <3>8, Zenon
  <2>6. CASE ~M!Mergeable(m[i], line) /\ ~(p > 0 /\ M!Mergeable(m[p], line))
    <3>1. r = M!InsertAt(m, i, line)
      BY <2>0, <2>6 DEF M!InsertBefore
    <3> HIDE DEF r
    <3>2. /\ r \in Seq(Region) /\ Len(r) = n + 1 /\ r[i] = line
          /\ (\A j \in 1 .. i - 1 : r[j] = m[j]) /\ \A j \in i + 1 .. n + 1 : r[j] = m[j - 1]
      <4>1. m \in Seq(Region) /\ i \in 1 .. Len(m)
        BY <1>1, <2>0
      <4>2. r = M!InsertAt(m, i, line) /\ n = Len(m) /\ line \in Region
        BY <1>2, <3>1
      <4>3. InsertedAt(Region, m, i, line, r)
        BY <4>1, <4>2, InsertAtIs, Zenon
      <4> QED BY <4>2, <4>3 DEF InsertedAt
    <3>3. Spliced(m, i, 0, line, r)
      BY <1>1, <2>0, <3>2 DEF Spliced
    <3>4. (i > 1 => ~M!Mergeable(m[i - 1], line)) /\ (i <= n => ~M!Mergeable(line, m[i]))
      BY <2>3, <2>6 DEF M!Mergeable
    <3> HIDE DEF n
    <3> QED BY <1>3, <2>0, <3>3, <3>4, Zenon
  <2> QED BY <2>4, <2>5, <2>6
<1> QED BY <1>7, <1>8

LEMMA PageOf == ASSUME NEW r \in Region, NEW x PROVE x \in M!Pages(r) <=> (x \in Nat /\ In(r, x))
BY DEF M!Pages, In, Region

LEMMA PagesOfIs ==
  ASSUME NEW s \in SUBSET Region, NEW o, NEW x
  PROVE  x \in M!PagesOf(s, o) <=> (x \in Nat /\ \E l \in s : l.object = o /\ In(l, x))
<1>1. x \in M!PagesOf(s, o) <=> \E l \in s : l.object = o /\ x \in M!Pages(l)
  BY DEF M!PagesOf
<1> QED BY <1>1, PageOf

\* The regions m of a process are the lines of s; of a line of d, that was taken
\* for a duplicate, they cover the first page; and unless b, no two share a page.
Listed(s, o, x) == \E l \in s : l.object = o /\ In(l, x)
RegionsOf(m, s, d, b) ==
  /\ Regions(m)
  /\ \A o \in Objects, x \in Nat : Covers(m, o, x) <=> Listed(s, o, x)
  /\ \A l \in d : \E o \in Objects : Covers(m, o, l.addr)
  /\ ~b => Clear(m)
ShmemInv ==
  /\ map \in [Pids -> Seq(Region)] /\ lines \in [Pids -> SUBSET Region]
  /\ dropped \in [Pids -> SUBSET Region] /\ mixed \in [Pids -> BOOLEAN]
  /\ \A p \in Pids : RegionsOf(map[p], lines[p], dropped[p], mixed[p])

LEMMA CoveredPages ==
  ASSUME ShmemInv, NEW p \in Pids, NEW o \in Objects
  PROVE  M!PagesOf(M!ToSet(map[p]), o) = M!PagesOf(lines[p], o)
<1> DEFINE m == map[p]
           s == M!ToSet(m)
<1>1. m \in Seq(Region) /\ lines[p] \in SUBSET Region
  BY DEF ShmemInv
<1>2. DOMAIN m = 1 .. Len(m) /\ s \in SUBSET Region /\ \A l : l \in s <=> \E k \in 1 .. Len(m) : m[k] = l
  BY <1>1 DEF M!ToSet
<1>3. \A x \in Nat : Covers(m, o, x) <=> Listed(lines[p], o, x)
  BY DEF ShmemInv, RegionsOf
<1> HIDE DEF m, s
<1>4. ASSUME NEW x
      PROVE  x \in M!PagesOf(s, o) <=> x \in M!PagesOf(lines[p], o)
  <2>1. x \in M!PagesOf(s, o) <=> (x \in Nat /\ \E l \in s : l.object = o /\ In(l, x))
    BY <1>2, PagesOfIs
  <2>2. x \in M!PagesOf(lines[p], o) <=> (x \in Nat /\ Listed(lines[p], o, x))
    BY <1>1, PagesOfIs DEF Listed
  <2>3. (\E l \in s : l.object = o /\ In(l, x)) <=> Covers(m, o, x)
    BY <1>2 DEF Covers
  <2> QED BY <1>3, <2>1, <2>2, <2>3
<1> QED BY <1>4 DEF m, s

\* Sorted regions without a page in common follow each other.
LEMMA ClearIsDisjoint == ASSUME NEW m, Regions(m), Clear(m) PROVE M!Disjoint(m)
<1> SUFFICES ASSUME NEW i \in 1 .. Len(m) - 1 PROVE M!EndOf(m[i]) <= m[i + 1].addr
  BY DEF M!Disjoint
<1> DEFINE j == i + 1
<1>1. Len(m) \in Nat /\ \A k \in 1 .. Len(m) : m[k] \in Region
  BY DEF Regions
<1>2. i \in 1 .. Len(m) /\ j \in 1 .. Len(m) /\ i < j
  BY <1>1
<1>3. m[i].addr < m[j].addr
  BY <1>2 DEF Regions, Sorted
<1>4. /\ m[i].addr \in Nat /\ m[i].len \in Nat \ {0} /\ m[j].addr \in Nat /\ m[j].len \in Nat \ {0}
  <2>1. m[i] \in Region /\ m[j] \in Region
    BY <1>1, <1>2
  <2> QED BY <2>1 DEF Region
<1>5. ~(In(m[i], m[j].addr) /\ In(m[j], m[j].addr))
  BY <1>2, <1>4 DEF Clear
<1> HIDE DEF j
<1>6. M!EndOf(m[i]) <= m[j].addr
  BY <1>3, <1>4, <1>5 DEF In, M!EndOf
<1> QED BY <1>6 DEF j

LEMMA RegionsExactOf == ASSUME ShmemInv PROVE RegionsExact
<1>0. ASSUME NEW p \in Pids PROVE RegionsOf(map[p], lines[p], dropped[p], mixed[p])
  BY DEF ShmemInv
<1>1. ASSUME NEW p \in Pids, NEW i \in 1 .. Len(map[p]) - 1
      PROVE  map[p][i].addr < map[p][i + 1].addr /\ ~M!Mergeable(map[p][i], map[p][i + 1])
  <2>1. Regions(map[p]) /\ Len(map[p]) \in Nat
    BY <1>0 DEF RegionsOf, Regions
  <2>2. i \in 1 .. Len(map[p]) /\ i + 1 \in 1 .. Len(map[p]) /\ i < i + 1
    BY <2>1
  <2> QED BY <2>1, <2>2 DEF Regions, Sorted, Tight
<1>2. ASSUME NEW p \in Pids, NEW o \in Objects
      PROVE  M!PagesOf(M!ToSet(map[p]), o) = M!PagesOf(lines[p], o)
  BY <1>2, CoveredPages
<1>3. ASSUME NEW p \in Pids, NEW l \in dropped[p]
      PROVE  \E o \in Objects : l.addr \in M!PagesOf(lines[p], o)
  <2>1. l.addr \in Nat /\ lines[p] \in SUBSET Region
    <3>1. l \in Region /\ lines[p] \in SUBSET Region
      BY DEF ShmemInv
    <3> QED BY <3>1 DEF Region
  <2>2. PICK o \in Objects : Covers(map[p], o, l.addr)
    BY <1>0 DEF RegionsOf
  <2>3. Listed(lines[p], o, l.addr)
    BY <1>0, <2>1, <2>2 DEF RegionsOf
  <2>4. l.addr \in M!PagesOf(lines[p], o)
    BY <2>1, <2>3, PagesOfIs DEF Listed
  <2> QED BY <2>4
<1>4. ASSUME NEW p \in Pids, ~mixed[p] PROVE M!Disjoint(map[p])
  BY <1>0, <1>4, ClearIsDisjoint DEF RegionsOf
<1> QED BY <1>1, <1>2, <1>3, <1>4 DEF RegionsExact, M!RegionsExact

LEMMA WantedIsRegion == ASSUME NEW line \in M!WantedLines PROVE line \in Region
<1>1. PageAddresses \subseteq Nat /\ Lengths \subseteq Nat \ {0}
  BY ObjectsAssumption DEF M!ShmemAssumption
<1>2. line \in M!Line /\ line.addr # Unmapped
  BY DEF M!WantedLines, M!Wanted, M!is_mapped
<1> QED BY <1>1, <1>2 DEF M!Line, Region

\* A line that is taken for a duplicate leaves the regions as they are.
LEMMA DuplicateKeeps ==
  ASSUME NEW m, NEW s, NEW d, NEW b, RegionsOf(m, s, d, b), NEW line \in Region, M!Duplicate(m, line)
  PROVE  RegionsOf(M!insert(m, line), s, d \cup {line}, b)
<1>1. M!insert(m, line) = m
  BY DEF M!insert
<1>2. \E o \in Objects : Covers(m, o, line.addr)
  <2>1. m \in Seq(Region)
    BY DEF RegionsOf, Regions
  <2>2. PICK i \in 1 .. Len(m) : m[i].addr = line.addr
    BY <2>1 DEF M!Duplicate
  <2>3. m[i] \in Region
    BY <2>1
  <2>4. m[i].object \in Objects /\ In(m[i], line.addr)
    BY <2>2, <2>3 DEF Region, In
  <2> QED BY <2>4 DEF Covers
<1> QED BY <1>1, <1>2 DEF RegionsOf

\* Any other line becomes part of them, and they stay clear of each other if it
\* shares no page with a line before.
LEMMA LineAdds ==
  ASSUME NEW m, NEW s \in SUBSET Region, NEW d \in SUBSET Region, NEW b, RegionsOf(m, s, d, b),
         NEW line \in Region, ~M!Duplicate(m, line),
         NEW t, ~t => ~b /\ \A l \in s : M!Pages(l) \cap M!Pages(line) = {}
  PROVE  RegionsOf(M!insert(m, line), s \cup {line}, d, t)
<1> DEFINE r == M!insert(m, line)
<1>1. Regions(m) /\ Added(m, line, r)
  BY InsertAdds DEF RegionsOf
<1> HIDE DEF r
<1>2. \A o \in Objects, x \in Nat : Covers(r, o, x) <=> Listed(s \cup {line}, o, x)
  BY <1>1 DEF Added, RegionsOf, Listed
<1>3. ASSUME NEW l \in d PROVE \E o \in Objects : Covers(r, o, l.addr)
  <2>1. l.addr \in Nat
    BY DEF Region
  <2>2. PICK o \in Objects : Covers(m, o, l.addr)
    BY DEF RegionsOf
  <2> QED BY <1>1, <2>1, <2>2 DEF Added
<1>4. ASSUME ~t PROVE Clear(r)
  <2>1. Clear(m)
    BY <1>4 DEF RegionsOf
  <2>2. ASSUME NEW j \in 1 .. Len(m), NEW x \in Nat, In(m[j], x), In(line, x) PROVE FALSE
    <3>1. m[j].object \in Objects
      <4>1. m[j] \in Region
        BY <1>1 DEF Regions
      <4> QED BY <4>1 DEF Region
    <3>2. Covers(m, m[j].object, x)
      BY <2>2 DEF Covers
    <3>3. Listed(s, m[j].object, x)
      BY <3>1, <3>2 DEF RegionsOf
    <3>4. PICK l \in s : In(l, x)
      BY <3>3 DEF Listed
    <3>5. x \in M!Pages(l) /\ x \in M!Pages(line)
      BY <2>2, <3>4, PageOf
    <3> QED BY <1>4, <3>5
  <2> QED BY <1>1, <2>1, <2>2 DEF Added, Away
<1> QED BY <1>1, <1>2, <1>3, <1>4 DEF RegionsOf, Added, r

LEMMA LoadKeeps ==
  ASSUME ShmemInv, NEW p \in Pids, M!Load(p)
  PROVE  ShmemInv'
<1>1. PICK line \in M!WantedLines :
        /\ map' = [map EXCEPT ![p] = M!insert(map[p], line)]
        /\ IF M!Duplicate(map[p], line)
           THEN /\ dropped' = [dropped EXCEPT ![p] = dropped[p] \cup {line}]
                /\ lines' = lines /\ mixed' = mixed
           ELSE /\ lines' = [lines EXCEPT ![p] = lines[p] \cup {line}]
                /\ mixed' = [mixed EXCEPT ![p] =
                                mixed[p] \/ \E l \in lines[p] : M!Pages(l) \cap M!Pages(line) # {}]
                /\ dropped' = dropped
  BY DEF M!Load
<1> DEFINE r == M!insert(map[p], line)
<1>2. line \in Region
  BY WantedIsRegion
<1>3. /\ map \in [Pids -> Seq(Region)] /\ lines \in [Pids -> SUBSET Region]
      /\ dropped \in [Pids -> SUBSET Region] /\ mixed \in [Pids -> BOOLEAN]
      /\ \A q \in Pids : RegionsOf(map[q], lines[q], dropped[q], mixed[q])
  BY DEF ShmemInv
<1>4. /\ lines' \in [Pids -> SUBSET Region] /\ dropped' \in [Pids -> SUBSET Region]
      /\ mixed' \in [Pids -> BOOLEAN]
      /\ \A q \in Pids : q # p => lines'[q] = lines[q] /\ dropped'[q] = dropped[q] /\ mixed'[q] = mixed[q]
  <2>1. CASE M!Duplicate(map[p], line)
    BY <1>1, <1>2, <1>3, <2>1
  <2>2. CASE ~M!Duplicate(map[p], line)
    <3> DEFINE t == mixed[p] \/ \E l \in lines[p] : M!Pages(l) \cap M!Pages(line) # {}
    <3>1. t \in BOOLEAN /\ mixed' = [mixed EXCEPT ![p] = t]
      BY <1>1, <1>3, <2>2
    <3> HIDE DEF t
    <3>2. mixed' \in [Pids -> BOOLEAN] /\ \A q \in Pids : q # p => mixed'[q] = mixed[q]
      BY <1>3, <3>1
    <3>3. lines' \in [Pids -> SUBSET Region] /\ \A q \in Pids : q # p => lines'[q] = lines[q]
      <4>1. lines' = [lines EXCEPT ![p] = lines[p] \cup {line}]
        BY <1>1, <2>2
      <4>2. lines[p] \cup {line} \in SUBSET Region
        BY <1>2, <1>3
      <4> QED BY <1>3, <4>1, <4>2
    <3> QED BY <1>1, <1>3, <2>2, <3>2, <3>3
  <2> QED BY <2>1, <2>2
<1>5. RegionsOf(r, lines'[p], dropped'[p], mixed'[p])
  <2>1. CASE M!Duplicate(map[p], line)
    <3>1. lines'[p] = lines[p] /\ dropped'[p] = dropped[p] \cup {line} /\ mixed'[p] = mixed[p]
      BY <1>1, <1>3, <2>1
    <3> QED BY <1>2, <1>3, <2>1, <3>1, DuplicateKeeps
  <2>2. CASE ~M!Duplicate(map[p], line)
    <3>1. lines'[p] = lines[p] \cup {line} /\ dropped'[p] = dropped[p]
      BY <1>1, <1>3, <2>2
    <3>2. ~mixed'[p] => ~mixed[p] /\ \A l \in lines[p] : M!Pages(l) \cap M!Pages(line) = {}
      BY <1>1, <1>3, <2>2
    <3>3. RegionsOf(map[p], lines[p], dropped[p], mixed[p]) /\ lines[p] \in SUBSET Region /\ dropped[p] \in SUBSET Region
      BY <1>3
    <3> QED BY <1>2, <2>2, <3>1, <3>2, <3>3, LineAdds
  <2> QED BY <2>1, <2>2
<1>6. map'[p] = r /\ \A q \in Pids : q # p => map'[q] = map[q]
  BY <1>1, <1>3
<1> HIDE DEF r
<1>7. map' \in [Pids -> Seq(Region)]
  BY <1>1, <1>3, <1>5 DEF r, RegionsOf, Regions
<1>8. ASSUME NEW q \in Pids PROVE RegionsOf(map'[q], lines'[q], dropped'[q], mixed'[q])
  BY <1>3, <1>4, <1>5, <1>6
<1> QED BY <1>4, <1>7, <1>8 DEF ShmemInv

LEMMA ShmemStart == OInit => ShmemInv
<1> SUFFICES ASSUME OInit PROVE ShmemInv
  OBVIOUS
<1>1. /\ map = [p \in Pids |-> << >>] /\ lines = [p \in Pids |-> {}]
      /\ dropped = [p \in Pids |-> {}] /\ mixed = [p \in Pids |-> FALSE]
  BY DEF OInit, M!Init
<1>2. << >> \in Seq(Region) /\ Len(<< >>) = 0
  BY EmptySeq
<1>3. Regions(<< >>) /\ Clear(<< >>) /\ \A o, x : ~Covers(<< >>, o, x)
  BY <1>2 DEF Regions, Sorted, Clear, Tight, Covers
<1>4. RegionsOf(<< >>, {}, {}, FALSE)
  BY <1>3 DEF RegionsOf, Listed
<1> QED BY <1>1, <1>2, <1>4 DEF ShmemInv

LEMMA ShmemInvariant == OSpec => []ShmemInv
<1>1. OInit => ShmemInv
  BY ShmemStart
<1>2. ShmemInv /\ [ONext]_objectVars => ShmemInv'
  <2> SUFFICES ASSUME ShmemInv, [ONext]_objectVars PROVE ShmemInv'
    OBVIOUS
  <2>1. CASE UNCHANGED shmemVars
    BY <2>1 DEF shmemVars, ShmemInv
  <2>2. CASE M!Next
    <3>1. ASSUME NEW p \in Pids, M!Load(p) PROVE ShmemInv'
      BY <3>1, LoadKeeps
    <3>2. ASSUME NEW p \in Pids, M!PassOver(p) PROVE UNCHANGED shmemVars
      BY <3>2 DEF M!PassOver, M!vars, shmemVars
    <3> QED BY <2>1, <2>2, <3>1, <3>2 DEF M!Next
  <2> QED BY <2>1, <2>2 DEF ONext, objectVars
<1> QED BY <1>1, <1>2, PTL DEF OSpec

\* Whatever the lines of a file and their order, overlapping ones and repeated ones
\* included, the regions of the process stay sorted, no two starting at one address
\* and no neighbours that could be merged, and cover for each object exactly the
\* pages of the lines that were not taken for duplicates; of a line that was, the
\* first page is covered; and as long as no two lines inserted share a page no two
\* regions do (ShmemMap!RegionsExact).
THEOREM RegionsAreLines == OSpec => []RegionsExact
BY ShmemInvariant, RegionsExactOf, PTL

-----------------------------------------------------------------------------
(* ShmemMap: the walk over the regions of two processes *)

Zeros == [pair \in Objects \X Objects |-> 0]
Grid(m, n) == (1 .. Len(m) + 1) \X (1 .. Len(n) + 1)
Onward(m, n, at) ==
  <<IF M!EndOf(m[at[1]]) <= M!EndOf(n[at[2]]) THEN at[1] + 1 ELSE at[1],
    IF M!EndOf(m[at[1]]) >= M!EndOf(n[at[2]]) THEN at[2] + 1 ELSE at[2]>>
Plus(f, a, b) == [f EXCEPT ![<<a.object, b.object>>] = @ + M!Overlap(a, b)]
Sums(f, m, n, at) ==
  IF at[1] > Len(m) \/ at[2] > Len(n) THEN Zeros ELSE Plus(f[Onward(m, n, at)], m[at[1]], n[at[2]])

\* The recursion of Walk.
Walks(f, m, n) == f = [at \in Grid(m, n) |-> Sums(f, m, n, at)]

LEMMA WalkIs == ASSUME NEW m, NEW n PROVE M!Walk(m, n) = (CHOOSE f : Walks(f, m, n))[<<1, 1>>]
BY DEF M!Walk, Walks, Sums, Plus, Zeros, Onward, Grid

Distance(m, n, at) == (Len(m) + 1 - at[1]) + (Len(n) + 1 - at[2])
Inner(m, n, at) == at[1] <= Len(m) /\ at[2] <= Len(n)

LEMMA AtIs ==
  ASSUME NEW m \in Seq(Region), NEW n \in Seq(Region), NEW at \in Grid(m, n)
  PROVE  /\ Len(m) \in Nat /\ Len(n) \in Nat
         /\ at = <<at[1], at[2]>> /\ at[1] \in 1 .. Len(m) + 1 /\ at[2] \in 1 .. Len(n) + 1
         /\ Distance(m, n, at) \in Nat
         /\ Inner(m, n, at) => /\ at[1] \in 1 .. Len(m) /\ m[at[1]] \in Region
                               /\ at[2] \in 1 .. Len(n) /\ n[at[2]] \in Region
<1>1. Len(m) \in Nat /\ Len(n) \in Nat
  OBVIOUS
<1>2. at = <<at[1], at[2]>> /\ at[1] \in 1 .. Len(m) + 1 /\ at[2] \in 1 .. Len(n) + 1
  BY DEF Grid
<1>3. Distance(m, n, at) \in Nat
  BY <1>1, <1>2 DEF Distance
<1>4. ASSUME Inner(m, n, at)
      PROVE  at[1] \in 1 .. Len(m) /\ m[at[1]] \in Region /\ at[2] \in 1 .. Len(n) /\ n[at[2]] \in Region
  <2>1. at[1] \in 1 .. Len(m) /\ at[2] \in 1 .. Len(n)
    BY <1>1, <1>2, <1>4 DEF Inner
  <2> QED BY <2>1
<1> QED BY <1>1, <1>2, <1>3, <1>4

\* One step of the walk leaves the region behind that ends first, or both.
LEMMA OnwardIs ==
  ASSUME NEW m \in Seq(Region), NEW n \in Seq(Region), NEW at \in Grid(m, n), Inner(m, n, at)
  PROVE  /\ Onward(m, n, at) \in Grid(m, n)
         /\ Distance(m, n, Onward(m, n, at)) < Distance(m, n, at)
         /\ LET a == m[at[1]]
                b == n[at[2]]
            IN  \/ M!EndOf(a) < M!EndOf(b) /\ Onward(m, n, at) = <<at[1] + 1, at[2]>>
                \/ M!EndOf(a) = M!EndOf(b) /\ Onward(m, n, at) = <<at[1] + 1, at[2] + 1>>
                \/ M!EndOf(a) > M!EndOf(b) /\ Onward(m, n, at) = <<at[1], at[2] + 1>>
<1> DEFINE a == m[at[1]]
           b == n[at[2]]
           i == at[1]
           j == at[2]
<1>1. Len(m) \in Nat /\ Len(n) \in Nat /\ i \in 1 .. Len(m) /\ j \in 1 .. Len(n) /\ a \in Region /\ b \in Region
  BY AtIs
<1>2. M!EndOf(a) \in Nat /\ M!EndOf(b) \in Nat
  <2> HIDE DEF a, b
  <2>1. a.addr \in Nat /\ a.len \in Nat \ {0} /\ b.addr \in Nat /\ b.len \in Nat \ {0}
    BY <1>1 DEF Region
  <2> QED BY <2>1 DEF M!EndOf
<1>3. Onward(m, n, at) = <<IF M!EndOf(a) <= M!EndOf(b) THEN i + 1 ELSE i, IF M!EndOf(a) >= M!EndOf(b) THEN j + 1 ELSE j>>
  BY DEF Onward
<1>4. Distance(m, n, at) = (Len(m) + 1 - i) + (Len(n) + 1 - j)
  BY DEF Distance
<1> HIDE DEF a, b, i, j
<1>5. ASSUME NEW k \in 1 .. Len(m) + 1, NEW l \in 1 .. Len(n) + 1, k + l > i + j
      PROVE  <<k, l>> \in Grid(m, n) /\ Distance(m, n, <<k, l>>) < Distance(m, n, at)
  <2>1. <<k, l>> \in Grid(m, n)
    BY DEF Grid
  <2>2. Distance(m, n, <<k, l>>) = (Len(m) + 1 - k) + (Len(n) + 1 - l)
    BY DEF Distance
  <2> QED BY <1>1, <1>4, <1>5, <2>1, <2>2
<1>6. CASE M!EndOf(a) < M!EndOf(b)
  <2>1. Onward(m, n, at) = <<i + 1, j>>
    BY <1>2, <1>3, <1>6
  <2>2. i + 1 \in 1 .. Len(m) + 1 /\ j \in 1 .. Len(n) + 1 /\ i + 1 + j > i + j
    BY <1>1
  <2> QED BY <1>5, <1>6, <2>1, <2>2 DEF a, b, i, j
<1>7. CASE M!EndOf(a) = M!EndOf(b)
  <2>1. Onward(m, n, at) = <<i + 1, j + 1>>
    BY <1>2, <1>3, <1>7
  <2>2. i + 1 \in 1 .. Len(m) + 1 /\ j + 1 \in 1 .. Len(n) + 1 /\ (i + 1) + (j + 1) > i + j
    BY <1>1
  <2> QED BY <1>5, <1>7, <2>1, <2>2 DEF a, b, i, j
<1>8. CASE M!EndOf(a) > M!EndOf(b)
  <2>1. Onward(m, n, at) = <<i, j + 1>>
    BY <1>2, <1>3, <1>8
  <2>2. i \in 1 .. Len(m) + 1 /\ j + 1 \in 1 .. Len(n) + 1 /\ i + (j + 1) > i + j
    BY <1>1
  <2> QED BY <1>5, <1>8, <2>1, <2>2 DEF a, b, i, j
<1> QED BY <1>2, <1>6, <1>7, <1>8

LEMMA SumsSame ==
  ASSUME NEW f, NEW g, NEW m, NEW n, NEW at, Len(m) \in Nat, Len(n) \in Nat, at[1] \in Nat, at[2] \in Nat,
         Inner(m, n, at) => f[Onward(m, n, at)] = g[Onward(m, n, at)]
  PROVE  Sums(f, m, n, at) = Sums(g, m, n, at)
<1>1. CASE Inner(m, n, at)
  BY <1>1 DEF Sums
<1>2. CASE ~Inner(m, n, at)
  BY <1>2 DEF Sums, Inner
<1> QED BY <1>1, <1>2

\* The walk ends: there is such a function.
LEMMA WalksExist == ASSUME NEW m \in Seq(Region), NEW n \in Seq(Region) PROVE \E f : Walks(f, m, n)
<1> DEFINE D == Grid(m, n)
           G == {k \in Nat : \E f : \A at \in D : Distance(m, n, at) <= k => f[at] = Sums(f, m, n, at)}
<1>0. \A at \in D : Len(m) \in Nat /\ Len(n) \in Nat /\ at[1] \in Nat /\ at[2] \in Nat /\ Distance(m, n, at) \in Nat
  BY AtIs
<1>1. \A at \in D : Inner(m, n, at) => Onward(m, n, at) \in D /\ Distance(m, n, Onward(m, n, at)) \in Nat /\ Distance(m, n, Onward(m, n, at)) < Distance(m, n, at)
  BY OnwardIs, AtIs
<1> HIDE DEF D
<1>2. 0 \in G
  <2> DEFINE f == [at \in D |-> Zeros]
  <2>1. ASSUME NEW at \in D, Distance(m, n, at) <= 0 PROVE f[at] = Sums(f, m, n, at)
    <3>1. ~Inner(m, n, at)
      BY <1>0, <1>1, <2>1
    <3> QED BY <1>0, <3>1 DEF Sums, Inner
  <2> HIDE DEF f
  <2> QED BY <2>1
<1>3. ASSUME NEW k \in Nat, k \in G PROVE k + 1 \in G
  <2>1. PICK f : \A at \in D : Distance(m, n, at) <= k => f[at] = Sums(f, m, n, at)
    BY <1>3
  <2> DEFINE h == [at \in D |-> IF Distance(m, n, at) <= k THEN f[at] ELSE Sums(f, m, n, at)]
  <2>2. ASSUME NEW at \in D, Distance(m, n, at) <= k + 1 PROVE h[at] = Sums(h, m, n, at)
    <3>1. h[at] = Sums(f, m, n, at)
      BY <2>1
    <3>2. Inner(m, n, at) => h[Onward(m, n, at)] = f[Onward(m, n, at)]
      <4> SUFFICES ASSUME Inner(m, n, at) PROVE h[Onward(m, n, at)] = f[Onward(m, n, at)]
        OBVIOUS
      <4>1. Onward(m, n, at) \in D /\ Distance(m, n, Onward(m, n, at)) <= k
        BY <1>0, <1>1, <2>2
      <4> QED BY <4>1
    <3> HIDE DEF h
    <3>3. Sums(h, m, n, at) = Sums(f, m, n, at)
      BY <1>0, <3>2, SumsSame
    <3> QED BY <3>1, <3>3
  <2> HIDE DEF h
  <2> QED BY <2>2
<1>4. Nat \subseteq G
  <2> HIDE DEF G
  <2> QED BY <1>2, <1>3, NatsByInduction
<1>5. PICK f : \A at \in D : Distance(m, n, at) <= Len(m) + Len(n) => f[at] = Sums(f, m, n, at)
  <2>1. Len(m) + Len(n) \in Nat
    OBVIOUS
  <2> QED BY <1>4, <2>1
<1> DEFINE g == [at \in D |-> f[at]]
           r == [at \in D |-> Sums(g, m, n, at)]
<1>6. ASSUME NEW at \in D PROVE g[at] = r[at]
  <2>1. Distance(m, n, at) <= Len(m) + Len(n)
    <3>1. at[1] \in 1 .. Len(m) + 1 /\ at[2] \in 1 .. Len(n) + 1 /\ Len(m) \in Nat /\ Len(n) \in Nat
      BY AtIs DEF D
    <3> QED BY <3>1 DEF Distance
  <2>2. Inner(m, n, at) => g[Onward(m, n, at)] = f[Onward(m, n, at)]
    BY <1>1
  <2>3. g[at] = Sums(f, m, n, at) /\ r[at] = Sums(g, m, n, at)
    BY <1>5, <2>1
  <2> HIDE DEF g, r
  <2> QED BY <1>0, <2>2, <2>3, SumsSame
<1>7. g = r
  <2>1. \A at \in D : f[at] = Sums(g, m, n, at)
    BY <1>6
  <2> QED BY <2>1
<1> QED BY <1>7 DEF Walks, D

\* The pages of an object in the regions from i on, and what two regions share.
From(m, i, o) == {x \in Nat : \E k \in i .. Len(m) : m[k].object = o /\ In(m[k], x)}
Both(a, b) == {x \in Nat : In(a, x) /\ In(b, x)}
Shared(m, n, at, o, r) == From(m, at[1], o) \cap From(n, at[2], r)

LEMMA OfTwo ==
  ASSUME NEW p \in Nat, NEW q \in Nat
  PROVE  /\ M!Max({p, q}) = IF p <= q THEN q ELSE p
         /\ M!Min({p, q}) = IF p <= q THEN p ELSE q
<1>1. M!Max({p, q}) \in {p, q} /\ \A y \in {p, q} : M!Max({p, q}) >= y
  <2>1. \E x \in {p, q} : \A y \in {p, q} : x >= y
    OBVIOUS
  <2> QED BY <2>1, Zenon DEF M!Max
<1>2. M!Min({p, q}) \in {p, q} /\ \A y \in {p, q} : M!Min({p, q}) <= y
  <2>1. \E x \in {p, q} : \A y \in {p, q} : x <= y
    OBVIOUS
  <2> QED BY <2>1, Zenon DEF M!Min
<1> QED BY <1>1, <1>2

\* Overlap counts the pages that two regions share.
LEMMA OverlapIs ==
  ASSUME NEW a \in Region, NEW b \in Region
  PROVE  IsFiniteSet(Both(a, b)) /\ M!Overlap(a, b) \in Nat /\ Cardinality(Both(a, b)) = M!Overlap(a, b)
<1>1. a.addr \in Nat /\ a.len \in Nat \ {0} /\ b.addr \in Nat /\ b.len \in Nat \ {0}
  BY DEF Region
<1> DEFINE s == M!Max({a.addr, b.addr})
           e == M!Min({M!EndOf(a), M!EndOf(b)})
<1>2. M!EndOf(a) = a.addr + a.len /\ M!EndOf(b) = b.addr + b.len
  BY DEF M!EndOf
<1>3. s = IF a.addr <= b.addr THEN b.addr ELSE a.addr
  BY <1>1, OfTwo
<1>4. e = IF M!EndOf(a) <= M!EndOf(b) THEN M!EndOf(a) ELSE M!EndOf(b)
  <2>1. M!EndOf(a) \in Nat /\ M!EndOf(b) \in Nat
    BY <1>1, <1>2
  <2> QED BY <2>1, OfTwo
<1>5. M!Overlap(a, b) = IF s >= e THEN 0 ELSE e - s
  BY DEF M!Overlap
<1> HIDE DEF s, e
<1>6. s \in Nat /\ e \in Nat
  BY <1>1, <1>2, <1>3, <1>4
<1>7. Both(a, b) = s .. e - 1
  <2>1. ASSUME NEW x \in Nat PROVE In(a, x) /\ In(b, x) <=> s <= x /\ x < e
    BY <1>1, <1>2, <1>3, <1>4 DEF In
  <2>2. \A x : x \in s .. e - 1 <=> x \in Nat /\ s <= x /\ x < e
    BY <1>6
  <2> QED BY <2>1, <2>2 DEF Both
<1>8. IsFiniteSet(s .. e - 1) /\ Cardinality(s .. e - 1) = IF s > e - 1 THEN 0 ELSE (e - 1) - s + 1
  <2>1. s \in Int /\ e - 1 \in Int
    BY <1>6
  <2> QED BY <2>1, FS_Interval
<1> QED BY <1>5, <1>6, <1>7, <1>8

\* Regions that do not overlap.
Walkable(m) ==
  m \in Seq(Region) /\ \A i, j \in 1 .. Len(m) : i < j => M!EndOf(m[i]) <= m[j].addr

LEMMA DisjointIsWalkable == ASSUME NEW m, Regions(m), M!Disjoint(m) PROVE Walkable(m)
<1>1. m \in Seq(Region) /\ Len(m) \in Nat
  BY DEF Regions
<1>2. ASSUME NEW i \in 1 .. Len(m), NEW j \in 1 .. Len(m), i < j
      PROVE  M!EndOf(m[i]) <= m[j].addr
  <2> DEFINE k == i + 1
  <2>1. i \in 1 .. Len(m) - 1 /\ k \in 1 .. Len(m) /\ (k = j \/ k < j)
    BY <1>1, <1>2
  <2>2. M!EndOf(m[i]) <= m[k].addr
    BY <2>1 DEF M!Disjoint
  <2> HIDE DEF k
  <2>3. k = j \/ m[k].addr < m[j].addr
    BY <2>1 DEF Regions, Sorted
  <2>4. M!EndOf(m[i]) \in Nat /\ m[k].addr \in Nat /\ m[j].addr \in Nat
    <3>1. m[i] \in Region /\ m[k] \in Region /\ m[j] \in Region
      BY <1>1, <2>1
    <3> QED BY <3>1 DEF Region, M!EndOf
  <2> QED BY <2>2, <2>3, <2>4
<1> QED BY <1>1, <1>2 DEF Walkable

\* The regions from i on are the region i and those behind it.
LEMMA FromIs ==
  ASSUME NEW m, Walkable(m), NEW i \in 1 .. Len(m), NEW o, NEW x \in Nat
  PROVE  /\ x \in From(m, i, o) <=> ((m[i].object = o /\ In(m[i], x)) \/ x \in From(m, i + 1, o))
         /\ In(m[i], x) => x < M!EndOf(m[i])
         /\ x \in From(m, i + 1, o) => ~(x < M!EndOf(m[i]))
<1>1. m \in Seq(Region) /\ Len(m) \in Nat /\ \A k \in 1 .. Len(m) : m[k] \in Region
  BY DEF Walkable
<1>2. \A k : k \in i .. Len(m) <=> k = i \/ k \in i + 1 .. Len(m)
  BY <1>1
<1>3. In(m[i], x) => x < M!EndOf(m[i])
  BY DEF In, M!EndOf
<1>4. ASSUME x \in From(m, i + 1, o) PROVE ~(x < M!EndOf(m[i]))
  <2>1. PICK k \in i + 1 .. Len(m) : In(m[k], x)
    BY <1>4 DEF From
  <2>2. k \in 1 .. Len(m) /\ i < k
    BY <1>1, <2>1
  <2>3. M!EndOf(m[i]) <= m[k].addr
    BY <2>2 DEF Walkable
  <2>4. m[k].addr \in Nat /\ m[i].addr \in Nat /\ m[i].len \in Nat
    BY <1>1, <2>2 DEF Region
  <2>5. m[k].addr <= x
    BY <2>1 DEF In
  <2> QED BY <2>3, <2>4, <2>5 DEF M!EndOf
<1> QED BY <1>2, <1>3, <1>4 DEF From

\* What is shared from a place on: what its two regions share, and what is
\* shared from the next place on, and no page is both.
LEMMA SharedIs ==
  ASSUME NEW m, Walkable(m), NEW n, Walkable(n), NEW at \in Grid(m, n), Inner(m, n, at), NEW o, NEW r
  PROVE  LET a == m[at[1]]
             b == n[at[2]]
             S == Shared(m, n, Onward(m, n, at), o, r)
         IN  /\ Shared(m, n, at, o, r) = IF a.object = o /\ b.object = r THEN S \cup Both(a, b) ELSE S
             /\ S \cap Both(a, b) = {}
<1> DEFINE i == at[1]
           j == at[2]
           a == m[i]
           b == n[j]
           to == Onward(m, n, at)
           S == Shared(m, n, to, o, r)
<1>0. m \in Seq(Region) /\ n \in Seq(Region)
  BY DEF Walkable
<1>1. i \in 1 .. Len(m) /\ j \in 1 .. Len(n) /\ a \in Region /\ b \in Region
  BY <1>0, AtIs
<1>2. M!EndOf(a) \in Nat /\ M!EndOf(b) \in Nat
  <2> HIDE DEF a, b
  <2>1. a.addr \in Nat /\ a.len \in Nat /\ b.addr \in Nat /\ b.len \in Nat
    BY <1>1 DEF Region
  <2> QED BY <2>1 DEF M!EndOf
<1>3. \/ M!EndOf(a) < M!EndOf(b) /\ to = <<i + 1, j>>
      \/ M!EndOf(a) = M!EndOf(b) /\ to = <<i + 1, j + 1>>
      \/ M!EndOf(a) > M!EndOf(b) /\ to = <<i, j + 1>>
  BY <1>0, OnwardIs
<1> DEFINE A1 == From(m, i, o)
           A2 == From(m, i + 1, o)
           B1 == From(n, j, r)
           B2 == From(n, j + 1, r)
<1>4. \A x \in Nat : /\ x \in A1 <=> ((a.object = o /\ In(a, x)) \/ x \in A2)
                     /\ In(a, x) => x < M!EndOf(a)
                     /\ x \in A2 => ~(x < M!EndOf(a))
  BY <1>1, FromIs
<1>5. \A x \in Nat : /\ x \in B1 <=> ((b.object = r /\ In(b, x)) \/ x \in B2)
                     /\ In(b, x) => x < M!EndOf(b)
                     /\ x \in B2 => ~(x < M!EndOf(b))
  BY <1>1, FromIs
<1>6. Shared(m, n, at, o, r) = A1 \cap B1
  BY DEF Shared
<1>7. /\ to = <<i + 1, j>> => S = A2 \cap B1
      /\ to = <<i + 1, j + 1>> => S = A2 \cap B2
      /\ to = <<i, j + 1>> => S = A1 \cap B2
  <2> HIDE DEF to
  <2> QED BY DEF Shared
<1>8. A1 \subseteq Nat /\ A2 \subseteq Nat /\ B1 \subseteq Nat /\ B2 \subseteq Nat /\ Both(a, b) \subseteq Nat
  BY DEF From, Both
<1>9. \A x \in Nat : x \in Both(a, b) <=> In(a, x) /\ In(b, x)
  BY DEF Both
<1> HIDE DEF i, j, a, b, to, S, A1, A2, B1, B2
<1>10. ASSUME NEW x \in Nat
       PROVE  /\ x \in A1 \cap B1 <=> (x \in S \/ (a.object = o /\ b.object = r /\ x \in Both(a, b)))
              /\ ~(x \in S /\ x \in Both(a, b))
  <2>1. CASE M!EndOf(a) < M!EndOf(b) /\ to = <<i + 1, j>>
    BY <1>2, <1>4, <1>5, <1>7, <1>9, <2>1
  <2>2. CASE M!EndOf(a) = M!EndOf(b) /\ to = <<i + 1, j + 1>>
    BY <1>2, <1>4, <1>5, <1>7, <1>9, <2>2
  <2>3. CASE M!EndOf(a) > M!EndOf(b) /\ to = <<i, j + 1>>
    BY <1>2, <1>4, <1>5, <1>7, <1>9, <2>3
  <2> QED BY <1>3, <2>1, <2>2, <2>3
<1>11. S \subseteq Nat
  BY <1>3, <1>7, <1>8
<1>12. A1 \cap B1 = (IF a.object = o /\ b.object = r THEN S \cup Both(a, b) ELSE S) /\ S \cap Both(a, b) = {}
  <2>1. S \cap Both(a, b) = {}
    BY <1>10, <1>11
  <2>2. CASE a.object = o /\ b.object = r
    BY <1>8, <1>10, <1>11, <2>1, <2>2
  <2>3. CASE ~(a.object = o /\ b.object = r)
    BY <1>8, <1>10, <1>11, <2>1, <2>3
  <2> QED BY <2>2, <2>3
<1> QED BY <1>6, <1>12 DEF a, b, i, j, to, S

\* What a step of the walk adds to the sum of two objects.
AddsTo(g, a, b, o, r) ==
  Plus(g, a, b)[<<o, r>>] = IF a.object = o /\ b.object = r THEN g[<<o, r>>] + M!Overlap(a, b) ELSE g[<<o, r>>]

LEMMA PlusIs ==
  ASSUME NEW g \in [Objects \X Objects -> Nat], NEW a \in Region, NEW b \in Region
  PROVE  /\ Plus(g, a, b) \in [Objects \X Objects -> Nat]
         /\ \A o, r \in Objects : AddsTo(g, a, b, o, r)
<1> DEFINE at == <<a.object, b.object>>
           new == g[at] + M!Overlap(a, b)
<1>1. a.object \in Objects /\ b.object \in Objects
  BY DEF Region
<1>2. at \in Objects \X Objects /\ \A o, r : <<o, r>> = at <=> (a.object = o /\ b.object = r)
  BY <1>1
<1>3. new \in Nat /\ Plus(g, a, b) = [g EXCEPT ![at] = new]
  <2>1. g[at] \in Nat /\ M!Overlap(a, b) \in Nat
    BY <1>2, OverlapIs
  <2> QED BY <2>1 DEF Plus
<1>4. new = g[at] + M!Overlap(a, b)
  OBVIOUS
<1> HIDE DEF at, new
<1>5. /\ [g EXCEPT ![at] = new] \in [Objects \X Objects -> Nat]
      /\ \A pair \in Objects \X Objects : [g EXCEPT ![at] = new][pair] = IF pair = at THEN new ELSE g[pair]
  BY <1>2, <1>3
<1>6. ASSUME NEW o \in Objects, NEW r \in Objects
      PROVE  AddsTo(g, a, b, o, r)
  <2>1. Plus(g, a, b)[<<o, r>>] = IF <<o, r>> = at THEN new ELSE g[<<o, r>>]
    BY <1>3, <1>5
  <2>2. CASE <<o, r>> = at
    BY <1>2, <1>4, <2>1, <2>2 DEF AddsTo
  <2>3. CASE <<o, r>> # at
    BY <1>2, <2>1, <2>3 DEF AddsTo
  <2> QED BY <2>2, <2>3
<1> QED BY <1>3, <1>5, <1>6

\* What the walk has from a place on, at the edge and before it.
LEMMA ZerosAre == Zeros \in [Objects \X Objects -> Nat] /\ \A o, r \in Objects : Zeros[<<o, r>>] = 0
BY DEF Zeros

LEMMA EdgeSum ==
  ASSUME NEW m \in Seq(Region), NEW n \in Seq(Region), NEW f, Walks(f, m, n), NEW at \in Grid(m, n), ~Inner(m, n, at)
  PROVE  f[at] = Zeros
<1>1. Len(m) \in Nat /\ Len(n) \in Nat /\ at[1] \in 1 .. Len(m) + 1 /\ at[2] \in 1 .. Len(n) + 1
  BY AtIs
<1>2. f[at] = Sums(f, m, n, at)
  BY DEF Walks
<1> QED BY <1>1, <1>2 DEF Sums, Inner

LEMMA InnerSum ==
  ASSUME NEW m \in Seq(Region), NEW n \in Seq(Region), NEW f, Walks(f, m, n), NEW at \in Grid(m, n), Inner(m, n, at)
  PROVE  f[at] = Plus(f[Onward(m, n, at)], m[at[1]], n[at[2]])
<1>1. f[at] = Sums(f, m, n, at)
  BY DEF Walks
<1>2. ~(at[1] > Len(m) \/ at[2] > Len(n))
  BY AtIs
<1> QED BY <1>1, <1>2, Zenon DEF Sums

\* A walk from any place ends at the edge.
LEMMA WalkInduction ==
  ASSUME NEW m \in Seq(Region), NEW n \in Seq(Region), NEW S,
         \A at \in Grid(m, n) : ~Inner(m, n, at) => at \in S,
         \A at \in Grid(m, n) : Inner(m, n, at) /\ Onward(m, n, at) \in S => at \in S
  PROVE  Grid(m, n) \subseteq S
<1> DEFINE G == {k \in Nat : \A at \in Grid(m, n) : Distance(m, n, at) <= k => at \in S}
<1>1. \A at \in Grid(m, n) : Distance(m, n, at) \in Nat
  BY AtIs
<1>2. \A at \in Grid(m, n) :
        Inner(m, n, at) => Onward(m, n, at) \in Grid(m, n) /\ Distance(m, n, Onward(m, n, at)) < Distance(m, n, at)
  BY OnwardIs
<1>3. 0 \in G
  <2>1. ASSUME NEW at \in Grid(m, n), Distance(m, n, at) <= 0 PROVE at \in S
    <3>1. ~Inner(m, n, at)
      BY <1>1, <1>2, <2>1
    <3> QED BY <3>1
  <2> QED BY <2>1
<1>4. ASSUME NEW k \in Nat, k \in G PROVE k + 1 \in G
  <2>1. ASSUME NEW at \in Grid(m, n), Distance(m, n, at) <= k + 1 PROVE at \in S
    <3>1. CASE Inner(m, n, at)
      <4>1. Onward(m, n, at) \in Grid(m, n) /\ Distance(m, n, Onward(m, n, at)) <= k
        BY <1>1, <1>2, <2>1, <3>1
      <4>2. Onward(m, n, at) \in S
        BY <1>4, <4>1
      <4> QED BY <3>1, <4>2
    <3>2. CASE ~Inner(m, n, at)
      BY <3>2
    <3> QED BY <3>1, <3>2
  <2> QED BY <2>1
<1>5. Nat \subseteq G
  <2> HIDE DEF G
  <2> QED BY <1>3, <1>4, NatsByInduction
<1> QED BY <1>1, <1>5

\* From each place on, the walk adds up what is shared, if no regions overlap.
Counted(f, m, n, at) ==
  /\ f[at] \in [Objects \X Objects -> Nat]
  /\ \A o, r \in Objects :
       IsFiniteSet(Shared(m, n, at, o, r)) /\ f[at][<<o, r>>] = Cardinality(Shared(m, n, at, o, r))

LEMMA EdgeCounts ==
  ASSUME NEW m \in Seq(Region), NEW n \in Seq(Region), NEW f, Walks(f, m, n), NEW at \in Grid(m, n), ~Inner(m, n, at)
  PROVE  Counted(f, m, n, at)
<1>1. /\ Len(m) \in Nat /\ Len(n) \in Nat /\ at[1] \in 1 .. Len(m) + 1 /\ at[2] \in 1 .. Len(n) + 1
  BY AtIs
<1>2. f[at] = Zeros
  BY EdgeSum
<1>3. ASSUME NEW o, NEW r PROVE Shared(m, n, at, o, r) = {}
  <2>1. at[1] .. Len(m) = {} \/ at[2] .. Len(n) = {}
    BY <1>1 DEF Inner
  <2> QED BY <2>1 DEF Shared, From
<1> QED BY <1>2, <1>3, ZerosAre, FS_EmptySet DEF Counted

LEMMA InnerCounts ==
  ASSUME NEW m, Walkable(m), NEW n, Walkable(n), NEW f, Walks(f, m, n), NEW at \in Grid(m, n), Inner(m, n, at),
         Counted(f, m, n, Onward(m, n, at))
  PROVE  Counted(f, m, n, at)
<1> DEFINE a == m[at[1]]
           b == n[at[2]]
           to == Onward(m, n, at)
           g == f[to]
<1>0. m \in Seq(Region) /\ n \in Seq(Region)
  BY DEF Walkable
<1>1. /\ a \in Region /\ b \in Region /\ Len(m) \in Nat /\ Len(n) \in Nat
      /\ at[1] \in 1 .. Len(m) /\ at[2] \in 1 .. Len(n)
  BY <1>0, AtIs
<1>2. f[at] = Plus(g, a, b)
  BY <1>0, InnerSum
<1>3. g \in [Objects \X Objects -> Nat]
  BY DEF Counted
<1>4. ASSUME NEW o \in Objects, NEW r \in Objects
      PROVE  /\ IsFiniteSet(Shared(m, n, at, o, r))
             /\ f[at][<<o, r>>] = Cardinality(Shared(m, n, at, o, r))
  <2> DEFINE S == Shared(m, n, to, o, r)
             T == Both(a, b)
  <2>1. IsFiniteSet(S) /\ g[<<o, r>>] = Cardinality(S)
    BY DEF Counted
  <2>2. /\ Shared(m, n, at, o, r) = IF a.object = o /\ b.object = r THEN S \cup T ELSE S
        /\ S \cap T = {}
    BY SharedIs
  <2>3. IsFiniteSet(T) /\ Cardinality(T) = M!Overlap(a, b) /\ M!Overlap(a, b) \in Nat
    BY <1>1, OverlapIs
  <2>4. f[at][<<o, r>>] = IF a.object = o /\ b.object = r THEN g[<<o, r>>] + M!Overlap(a, b) ELSE g[<<o, r>>]
    <3>1. a \in Region /\ b \in Region
      BY <1>1
    <3>2. g \in [Objects \X Objects -> Nat]
      BY <1>3
    <3>3. f[at] = Plus(g, a, b)
      BY <1>2
    <3> HIDE DEF a, b, g
    <3>4. AddsTo(g, a, b, o, r)
      BY <3>1, <3>2, PlusIs, Zenon
    <3> QED BY <3>3, <3>4 DEF AddsTo
  <2> HIDE DEF S, T, g, a, b
  <2>5. IsFiniteSet(S \cup T) /\ Cardinality(S \cup T) = Cardinality(S) + Cardinality(T)
    <3>1. IsFiniteSet(S \cup T) /\ Cardinality(S \cup T) = Cardinality(S) + Cardinality(T) - Cardinality(S \cap T)
      BY <2>1, <2>3, FS_Union
    <3>2. Cardinality(S \cap T) = 0 /\ Cardinality(S) \in Nat /\ Cardinality(T) \in Nat
      BY <2>1, <2>2, <2>3, FS_EmptySet, FS_CardinalityType
    <3> QED BY <3>1, <3>2
  <2> QED BY <2>1, <2>2, <2>3, <2>4, <2>5
<1>5. f[at] \in [Objects \X Objects -> Nat]
  <2>1. a \in Region /\ b \in Region
    BY <1>1
  <2>2. g \in [Objects \X Objects -> Nat]
    BY <1>3
  <2>3. f[at] = Plus(g, a, b)
    BY <1>2
  <2> HIDE DEF a, b, g
  <2>4. Plus(g, a, b) \in [Objects \X Objects -> Nat]
    BY <2>1, <2>2, PlusIs, Zenon
  <2> QED BY <2>3, <2>4
<1> QED BY <1>4, <1>5 DEF Counted

LEMMA WalkCounts ==
  ASSUME NEW m, Walkable(m), NEW n, Walkable(n), NEW f, Walks(f, m, n)
  PROVE  \A at \in Grid(m, n) : Counted(f, m, n, at)
<1> DEFINE S == {at \in Grid(m, n) : Counted(f, m, n, at)}
<1>0. m \in Seq(Region) /\ n \in Seq(Region)
  BY DEF Walkable
<1>1. \A at \in Grid(m, n) : ~Inner(m, n, at) => at \in S
  BY <1>0, EdgeCounts
<1>2. \A at \in Grid(m, n) : Inner(m, n, at) /\ Onward(m, n, at) \in S => at \in S
  BY InnerCounts
<1>3. Grid(m, n) \subseteq S
  <2> HIDE DEF S
  <2> QED BY <1>0, <1>1, <1>2, WalkInduction
<1> QED BY <1>3

\* Whatever the regions, what the walk adds up for two objects is from two
\* regions of theirs that share a page.
OnlyShared(f, m, n, at) ==
  /\ f[at] \in [Objects \X Objects -> Nat]
  /\ \A o, r \in Objects : f[at][<<o, r>>] > 0 => Shared(m, n, <<1, 1>>, o, r) # {}

LEMMA InnerFinds ==
  ASSUME NEW m \in Seq(Region), NEW n \in Seq(Region), NEW f, Walks(f, m, n), NEW at \in Grid(m, n),
         Inner(m, n, at), OnlyShared(f, m, n, Onward(m, n, at))
  PROVE  OnlyShared(f, m, n, at)
<1> DEFINE a == m[at[1]]
           b == n[at[2]]
           g == f[Onward(m, n, at)]
<1>1. /\ a \in Region /\ b \in Region /\ Len(m) \in Nat /\ Len(n) \in Nat
      /\ at[1] \in 1 .. Len(m) /\ at[2] \in 1 .. Len(n)
  BY AtIs
<1>2. f[at] = Plus(g, a, b)
  BY InnerSum
<1>3. g \in [Objects \X Objects -> Nat]
  BY DEF OnlyShared
<1>4. ASSUME NEW o \in Objects, NEW r \in Objects, a.object = o, b.object = r, M!Overlap(a, b) > 0
      PROVE  Shared(m, n, <<1, 1>>, o, r) # {}
  <2>1. Both(a, b) # {}
    <3>1. IsFiniteSet(Both(a, b)) /\ Cardinality(Both(a, b)) = M!Overlap(a, b) /\ M!Overlap(a, b) \in Nat
      BY <1>1, OverlapIs
    <3> HIDE DEF a, b
    <3> QED BY <1>4, <3>1, FS_EmptySet
  <2>2. PICK x \in Nat : In(a, x) /\ In(b, x)
    BY <2>1 DEF Both
  <2>3. x \in From(m, 1, o) /\ x \in From(n, 1, r)
    BY <1>1, <1>4, <2>2 DEF From
  <2> QED BY <2>3 DEF Shared
<1>5. \A o, r \in Objects : g[<<o, r>>] > 0 => Shared(m, n, <<1, 1>>, o, r) # {}
  BY DEF OnlyShared
<1>6. M!Overlap(a, b) \in Nat
  <2>1. a \in Region /\ b \in Region
    BY <1>1
  <2> HIDE DEF a, b
  <2> QED BY <2>1, OverlapIs
<1> HIDE DEF a, b, g
<1>7. f[at] \in [Objects \X Objects -> Nat] /\ \A o, r \in Objects : AddsTo(g, a, b, o, r)
  <2>1. a \in Region /\ b \in Region
    BY <1>1
  <2>2. Plus(g, a, b) \in [Objects \X Objects -> Nat] /\ \A o, r \in Objects : AddsTo(g, a, b, o, r)
    BY <1>3, <2>1, PlusIs, Zenon
  <2> QED BY <1>2, <2>2, Zenon
<1>8. ASSUME NEW o \in Objects, NEW r \in Objects, f[at][<<o, r>>] > 0
      PROVE  Shared(m, n, <<1, 1>>, o, r) # {}
  <2>1. g[<<o, r>>] \in Nat
    BY <1>3
  <2>2. f[at][<<o, r>>] = IF a.object = o /\ b.object = r THEN g[<<o, r>>] + M!Overlap(a, b) ELSE g[<<o, r>>]
    BY <1>2, <1>7 DEF AddsTo
  <2>3. g[<<o, r>>] > 0 \/ (a.object = o /\ b.object = r /\ M!Overlap(a, b) > 0)
    BY <1>6, <1>8, <2>1, <2>2
  <2> QED BY <1>4, <1>5, <2>3
<1> QED BY <1>7, <1>8 DEF OnlyShared

LEMMA WalkFinds ==
  ASSUME NEW m \in Seq(Region), NEW n \in Seq(Region), NEW f, Walks(f, m, n)
  PROVE  \A at \in Grid(m, n) : OnlyShared(f, m, n, at)
<1> DEFINE S == {at \in Grid(m, n) : OnlyShared(f, m, n, at)}
<1>1. ASSUME NEW at \in Grid(m, n), ~Inner(m, n, at) PROVE at \in S
  <2>1. f[at] = Zeros
    BY <1>1, EdgeSum
  <2> QED BY <2>1, ZerosAre DEF OnlyShared
<1>2. \A at \in Grid(m, n) : Inner(m, n, at) /\ Onward(m, n, at) \in S => at \in S
  BY InnerFinds
<1>3. Grid(m, n) \subseteq S
  <2> HIDE DEF S
  <2> QED BY <1>1, <1>2, WalkInduction
<1> QED BY <1>3

\* The walk from the other side adds up the same.
Mirror(at) == <<at[2], at[1]>>
Mirrored(f, g, at) ==
  /\ f[at] \in [Objects \X Objects -> Nat] /\ g[Mirror(at)] \in [Objects \X Objects -> Nat]
  /\ \A o, r \in Objects : f[at][<<o, r>>] = g[Mirror(at)][<<r, o>>]

LEMMA MirrorIs ==
  ASSUME NEW m \in Seq(Region), NEW n \in Seq(Region), NEW at \in Grid(m, n)
  PROVE  /\ Mirror(at) \in Grid(n, m) /\ Mirror(at)[1] = at[2] /\ Mirror(at)[2] = at[1]
         /\ Inner(n, m, Mirror(at)) <=> Inner(m, n, at)
         /\ Inner(m, n, at) => Onward(n, m, Mirror(at)) = Mirror(Onward(m, n, at))
<1>1. at[1] \in 1 .. Len(m) + 1 /\ at[2] \in 1 .. Len(n) + 1
  BY AtIs
<1>2. Mirror(at) \in Grid(n, m) /\ Mirror(at)[1] = at[2] /\ Mirror(at)[2] = at[1]
  BY <1>1 DEF Mirror, Grid
<1>3. Inner(n, m, Mirror(at)) <=> Inner(m, n, at)
  BY <1>2 DEF Inner
<1>4. ASSUME Inner(m, n, at) PROVE Onward(n, m, Mirror(at)) = Mirror(Onward(m, n, at))
  <2> DEFINE x == M!EndOf(m[at[1]])
             y == M!EndOf(n[at[2]])
             i == IF x <= y THEN at[1] + 1 ELSE at[1]
             j == IF x >= y THEN at[2] + 1 ELSE at[2]
  <2>1. x \in Nat /\ y \in Nat
    <3> DEFINE a == m[at[1]]
               b == n[at[2]]
    <3>1. a \in Region /\ b \in Region
      BY <1>4, AtIs
    <3> HIDE DEF a, b
    <3>2. M!EndOf(a) \in Nat /\ M!EndOf(b) \in Nat
      BY <3>1 DEF Region, M!EndOf
    <3> QED BY <3>2 DEF a, b
  <2>2. Onward(m, n, at) = <<i, j>>
    BY DEF Onward
  <2>3. Onward(n, m, Mirror(at)) =
          <<IF y <= x THEN at[2] + 1 ELSE at[2], IF y >= x THEN at[1] + 1 ELSE at[1]>>
    BY <1>2 DEF Onward
  <2> HIDE DEF x, y
  <2>4. Onward(n, m, Mirror(at)) = <<j, i>>
    BY <2>1, <2>3
  <2> HIDE DEF i, j
  <2> QED BY <2>2, <2>4 DEF Mirror
<1> QED BY <1>2, <1>3, <1>4

LEMMA OverlapSame == ASSUME NEW a \in Region, NEW b \in Region PROVE M!Overlap(a, b) = M!Overlap(b, a)
<1>1. Both(a, b) = Both(b, a)
  BY DEF Both
<1> QED BY <1>1, OverlapIs

LEMMA InnerMirrors ==
  ASSUME NEW m \in Seq(Region), NEW n \in Seq(Region), NEW f, Walks(f, m, n), NEW g, Walks(g, n, m),
         NEW at \in Grid(m, n), Inner(m, n, at), Mirrored(f, g, Onward(m, n, at))
  PROVE  Mirrored(f, g, at)
<1> DEFINE a == m[at[1]]
           b == n[at[2]]
           u == f[Onward(m, n, at)]
           v == g[Mirror(Onward(m, n, at))]
<1>1. a \in Region /\ b \in Region
  BY AtIs
<1>2. f[at] = Plus(u, a, b)
  BY InnerSum
<1>3. g[Mirror(at)] = Plus(v, b, a)
  <2>1. /\ Mirror(at) \in Grid(n, m) /\ Mirror(at)[1] = at[2] /\ Mirror(at)[2] = at[1]
        /\ Inner(n, m, Mirror(at)) /\ Onward(n, m, Mirror(at)) = Mirror(Onward(m, n, at))
    BY MirrorIs
  <2>2. g[Mirror(at)] = Plus(g[Onward(n, m, Mirror(at))], n[Mirror(at)[1]], m[Mirror(at)[2]])
    BY <2>1, InnerSum
  <2> QED BY <2>1, <2>2
<1>4. /\ u \in [Objects \X Objects -> Nat] /\ v \in [Objects \X Objects -> Nat]
      /\ \A o, r \in Objects : u[<<o, r>>] = v[<<r, o>>]
  BY DEF Mirrored
<1> HIDE DEF a, b, u, v
<1>5. /\ Plus(u, a, b) \in [Objects \X Objects -> Nat] /\ Plus(v, b, a) \in [Objects \X Objects -> Nat]
      /\ \A o, r \in Objects : AddsTo(u, a, b, o, r) /\ AddsTo(v, b, a, r, o)
  BY <1>1, <1>4, PlusIs, Zenon
<1>6. ASSUME NEW o \in Objects, NEW r \in Objects
      PROVE  Plus(u, a, b)[<<o, r>>] = Plus(v, b, a)[<<r, o>>]
  <2>1. AddsTo(u, a, b, o, r) /\ AddsTo(v, b, a, r, o) /\ u[<<o, r>>] = v[<<r, o>>]
    BY <1>4, <1>5
  <2>2. M!Overlap(a, b) = M!Overlap(b, a)
    BY <1>1, OverlapSame
  <2> QED BY <2>1, <2>2 DEF AddsTo
<1> QED BY <1>2, <1>3, <1>5, <1>6 DEF Mirrored

LEMMA WalkMirrors ==
  ASSUME NEW m \in Seq(Region), NEW n \in Seq(Region), NEW f, Walks(f, m, n), NEW g, Walks(g, n, m)
  PROVE  \A at \in Grid(m, n) : Mirrored(f, g, at)
<1> DEFINE S == {at \in Grid(m, n) : Mirrored(f, g, at)}
<1>1. ASSUME NEW at \in Grid(m, n), ~Inner(m, n, at) PROVE at \in S
  <2>1. f[at] = Zeros
    BY <1>1, EdgeSum
  <2>2. g[Mirror(at)] = Zeros
    <3>1. Mirror(at) \in Grid(n, m) /\ ~Inner(n, m, Mirror(at))
      BY <1>1, MirrorIs
    <3> QED BY <3>1, EdgeSum
  <2> QED BY <2>1, <2>2, ZerosAre DEF Mirrored
<1>2. \A at \in Grid(m, n) : Inner(m, n, at) /\ Onward(m, n, at) \in S => at \in S
  BY InnerMirrors
<1>3. Grid(m, n) \subseteq S
  <2> HIDE DEF S
  <2> QED BY <1>1, <1>2, WalkInduction
<1> QED BY <1>3

\* The cardinality of ShmemMap is the one of the theorems about finite sets.
LEMMA SameCount == ASSUME NEW S PROVE M!Cardinality(S) = Cardinality(S)
BY DEF M!Cardinality, Cardinality

\* What the walk over the regions of two processes adds up for two objects.
Sum(p, q, o, r) == M!overlap(p, q)[<<o, r>>]

LEMMA OverlapExactOf == ASSUME ShmemInv PROVE OverlapExact
<1> DEFINE w(p, q) == CHOOSE f : Walks(f, map[p], map[q])
<1>1. ASSUME NEW p \in Pids
      PROVE  map[p] \in Seq(Region) /\ Len(map[p]) \in Nat /\ Regions(map[p])
  BY DEF ShmemInv, RegionsOf, Regions
<1>2. ASSUME NEW p \in Pids, NEW q \in Pids
      PROVE  /\ Walks(w(p, q), map[p], map[q]) /\ <<1, 1>> \in Grid(map[p], map[q])
             /\ M!overlap(p, q) = w(p, q)[<<1, 1>>]
  <2>1. \E f : Walks(f, map[p], map[q])
    BY <1>1, WalksExist
  <2>2. Walks(w(p, q), map[p], map[q])
    BY <2>1, Zenon
  <2>3. <<1, 1>> \in Grid(map[p], map[q])
    BY <1>1 DEF Grid
  <2>4. M!overlap(p, q) = w(p, q)[<<1, 1>>]
    BY WalkIs DEF M!overlap
  <2> QED BY <2>2, <2>3, <2>4
<1> HIDE DEF w
<1>3. ASSUME NEW p \in Pids, NEW q \in Pids, NEW o \in Objects, NEW r \in Objects
      PROVE  Shared(map[p], map[q], <<1, 1>>, o, r) = M!SharedPages(p, q, o, r)
  <2>1. ASSUME NEW s \in Pids, NEW u \in Objects
        PROVE  From(map[s], 1, u) = M!PagesOf(lines[s], u)
    <3>1. ASSUME NEW x PROVE x \in From(map[s], 1, u) <=> x \in M!PagesOf(lines[s], u)
      <4>1. x \in From(map[s], 1, u) <=> (x \in Nat /\ Covers(map[s], u, x))
        BY DEF From, Covers
      <4>2. lines[s] \in SUBSET Region /\ (x \in Nat => (Covers(map[s], u, x) <=> Listed(lines[s], u, x)))
        BY DEF ShmemInv, RegionsOf
      <4>3. x \in M!PagesOf(lines[s], u) <=> (x \in Nat /\ Listed(lines[s], u, x))
        BY <4>2, PagesOfIs DEF Listed
      <4> QED BY <4>1, <4>2, <4>3
    <3> QED BY <3>1
  <2>2. Shared(map[p], map[q], <<1, 1>>, o, r) = From(map[p], 1, o) \cap From(map[q], 1, r)
    BY DEF Shared
  <2> QED BY <2>1, <2>2 DEF M!SharedPages
<1>4. ASSUME NEW p \in Pids, NEW q \in Pids, NEW o \in Objects, NEW r \in Objects
      PROVE  /\ Sum(p, q, o, r) = Sum(q, p, r, o)
             /\ Sum(p, q, o, r) > 0 => M!SharedPages(p, q, o, r) # {}
  <2>1. Mirrored(w(p, q), w(q, p), <<1, 1>>)
    BY <1>1, <1>2, WalkMirrors
  <2>2. OnlyShared(w(p, q), map[p], map[q], <<1, 1>>)
    BY <1>1, <1>2, WalkFinds
  <2>3. M!overlap(p, q) = w(p, q)[<<1, 1>>] /\ M!overlap(q, p) = w(q, p)[<<1, 1>>]
    BY <1>2
  <2>4. Sum(p, q, o, r) = Sum(q, p, r, o)
    BY <2>1, <2>3 DEF Mirrored, Mirror, Sum
  <2>5. Sum(p, q, o, r) > 0 => M!SharedPages(p, q, o, r) # {}
    BY <1>3, <2>2, <2>3 DEF OnlyShared, Sum
  <2> QED BY <2>4, <2>5
<1>5. ASSUME NEW p \in Pids, NEW q \in Pids, NEW o \in Objects, NEW r \in Objects,
             M!Disjoint(map[p]), M!Disjoint(map[q])
      PROVE  Sum(p, q, o, r) = M!Cardinality(M!SharedPages(p, q, o, r))
  <2>1. Walkable(map[p]) /\ Walkable(map[q])
    BY <1>1, <1>5, DisjointIsWalkable
  <2>2. Counted(w(p, q), map[p], map[q], <<1, 1>>)
    BY <1>2, <2>1, WalkCounts
  <2>3. Sum(p, q, o, r) = Cardinality(Shared(map[p], map[q], <<1, 1>>, o, r))
    BY <1>2, <2>2 DEF Counted, Sum
  <2> QED BY <1>3, <2>3, SameCount
<1>6. ASSUME NEW p \in Pids, NEW q \in Pids, NEW o \in Objects, NEW r \in Objects
      PROVE  /\ Sum(p, q, o, r) = Sum(q, p, r, o)
             /\ Sum(p, q, o, r) > 0 => M!SharedPages(p, q, o, r) # {}
             /\ M!Disjoint(map[p]) /\ M!Disjoint(map[q]) =>
                  Sum(p, q, o, r) = M!Cardinality(M!SharedPages(p, q, o, r))
  BY <1>4, <1>5
<1> QED BY <1>6 DEF OverlapExact, M!OverlapExact, Sum

\* Whatever the regions, what the walk of print_shmem() adds up for a pair of
\* objects is the same seen from either process, and is only of objects that do
\* share a page.  If the regions of neither process overlap, it is exactly the
\* pages that they share, each counted once (ShmemMap!OverlapExact).
THEOREM OverlapIsShared == OSpec => []OverlapExact
BY ShmemInvariant, OverlapExactOf, PTL

=============================================================================
