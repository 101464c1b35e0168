----------------------- MODULE AsioDispatcher_proofs -----------------------
(***************************************************************************)
(* Proofs about the socket notifiers of the dispatcher, for any notifiers, *)
(* descriptors and bounds: the revisions do what they are there for, and   *)
(* pending_operations counts what it must.                                 *)
(***************************************************************************)
EXTENDS AsioDispatcherProps, FiniteSetTheorems, TLAPS

(***************************************************************************)
(* The inductive invariant.                                                *)
(***************************************************************************)
OpsOf(f) == {o \in ops : o.fd = f}

\* An operation is determined by what it is for and its revision.
Unique == \A o, p \in ops :
              o.fd = p.fd /\ o.type = p.type /\ o.rev = p.rev => o = p

\* Revisions only grow.
NotAhead == \A o \in ops : o.rev <= revision[o.fd][o.type]

\* What has been cancelled is out of date.
AbortedOld == \A o \in ops : o.st = "aborted" => o.rev < revision[o.fd][o.type]

\* pending_operations
Counted == \A f \in Fd : /\ IsFiniteSet(OpsOf(f))
                         /\ pending[f] = Cardinality(OpsOf(f))

EnabledHasOp == \A f \in Fd, t \in Type :
                    notif[f][t] # NoNotifier => \E o \in ops : o \in Current(f, t)

SocksInv == /\ Unique
            /\ NotAhead
            /\ AbortedOld
            /\ Counted
            /\ EnabledHasOp
            /\ NoStaleEvent
            /\ HandlersHaveNotifier

IInv == TypeOK /\ SocksInv

-----------------------------------------------------------------------------
LEMMA InitInv == Init => IInv
<1> SUFFICES ASSUME Init PROVE IInv
  OBVIOUS
<1>1. TypeOK
  <2>1. /\ sn \in [Fd -> 0..MaxStart] /\ made \in 0..MaxStart
        /\ notif \in [Fd -> [Type -> Notifier \cup {NoNotifier}]]
        /\ revision \in [Fd -> [Type -> Nat]]
        /\ pending \in [Fd -> Nat]
    BY StartAssumption DEF Init
  <2>2. QED
    BY <2>1 DEF Init, TypeOK
<1>2. \A f \in Fd : OpsOf(f) = {}
  BY DEF Init, OpsOf
<1>3. Counted
  BY <1>2, FS_EmptySet DEF Init, Counted
<1>4. QED
  BY <1>1, <1>3 DEF Init, IInv, SocksInv, Unique, NotAhead, AbortedOld, EnabledHasOp,
     NoStaleEvent, Current, HandlersHaveNotifier

\* Steps that leave the socket notifiers alone.
LEMMA OtherSteps ==
    ASSUME SocksInv, UNCHANGED socks
    PROVE  SocksInv'
BY DEF SocksInv, socks, Unique, NotAhead, AbortedOld, Counted, OpsOf, EnabledHasOp,
       NoStaleEvent, Current, HandlersHaveNotifier

-----------------------------------------------------------------------------
(***************************************************************************)
(* A notifier is enabled.                                                  *)
(***************************************************************************)
LEMMA RegisterStep ==
    ASSUME IInv, NEW n \in Notifier, Register(n)
    PROVE  IInv'
<1> DEFINE f == FdOf[n]
           t == TypeOf[n]
           r == revision[f][t] + 1
           op == Op(f, t, r, n)
<1>1. f \in Fd /\ t \in Type /\ n # NoNotifier
  BY TypeAssumption, NotifierAssumption DEF Fd
<1>2. r \in Nat /\ r > revision[f][t] /\ notif[f][t] = NoNotifier
  BY <1>1 DEF IInv, TypeOK, Register
<1>3. /\ sn' \in [Fd -> 0..MaxStart] /\ made' \in 0..MaxStart
      /\ sn'[f] \in 1..MaxStart
      /\ \A o \in ops : sn'[o.fd] = sn[o.fd]
  <2>1. CASE sn[f] # 0
    BY <1>1, <2>1, StartAssumption DEF IInv, TypeOK, Register
  <2>2. CASE sn[f] = 0
    <3>1. \A o \in ops : o.fd # f
      BY <2>2, StartAssumption DEF IInv, TypeOK, SocksInv, HandlersHaveNotifier, Operation
    <3>2. made' = made + 1 /\ made < MaxStart /\ sn' = [sn EXCEPT ![f] = made + 1]
      BY <2>2 DEF Register
    <3>3. made + 1 \in 1..MaxStart
      BY <3>2, StartAssumption DEF IInv, TypeOK
    <3>4. QED
      BY <1>1, <3>1, <3>2, <3>3, StartAssumption DEF IInv, TypeOK, Operation
  <2>3. QED
    BY <2>1, <2>2
<1>4. /\ op \in Operation /\ op.fd = f /\ op.sn = sn'[f] /\ op.type = t
      /\ op.rev = r /\ op.for = n /\ op.st = "waits"
  BY <1>1, <1>2, <1>3 DEF Op, Operation
<1> HIDE DEF op
<1>5. ops' = ops \cup {op}
  BY DEF Register, op
<1>6. /\ notif' = [notif EXCEPT ![f][t] = n]
      /\ revision' = [revision EXCEPT ![f][t] = r]
      /\ pending' = [pending EXCEPT ![f] = @ + 1]
  BY DEF Register
<1>7. TypeOK'
  <2>1. ops' \subseteq Operation
    BY <1>4, <1>5 DEF IInv, TypeOK
  <2>2. /\ notif' \in [Fd -> [Type -> Notifier \cup {NoNotifier}]]
        /\ revision' \in [Fd -> [Type -> Nat]]
        /\ pending' \in [Fd -> Nat]
    BY <1>1, <1>2, <1>6 DEF IInv, TypeOK
  <2>3. UNCHANGED <<loop, service, timer>>
    BY DEF Register
  <2>4. QED
    BY <1>3, <2>1, <2>2, <2>3 DEF IInv, TypeOK, loop, service, timer, Operation
<1>8. \A g \in Fd, u \in Type :
        /\ g = f /\ u = t => notif'[g][u] = n /\ revision'[g][u] = r
        /\ g # f \/ u # t => notif'[g][u] = notif[g][u] /\ revision'[g][u] = revision[g][u]
  BY <1>1, <1>6 DEF IInv, TypeOK
<1>9. \A o \in ops : /\ o.fd \in Fd /\ o.type \in Type /\ o.rev \in Nat
                     /\ o.rev <= revision[o.fd][o.type]
                     /\ revision[o.fd][o.type] \in Nat
  BY DEF IInv, TypeOK, Operation, SocksInv, NotAhead
<1>10. \A o \in ops : o.fd = f /\ o.type = t => o.rev < r
  BY <1>2, <1>9
<1>11. Unique'
  BY <1>4, <1>5, <1>10, <1>9 DEF IInv, SocksInv, Unique
<1>12. NotAhead' /\ AbortedOld'
  BY <1>4, <1>5, <1>8, <1>9, <1>10, <1>1, <1>2 DEF IInv, SocksInv, NotAhead, AbortedOld
<1>13. Counted'
  <2> SUFFICES ASSUME NEW g \in Fd
               PROVE  IsFiniteSet(OpsOf(g)') /\ pending'[g] = Cardinality(OpsOf(g)')
    BY DEF Counted
  <2>1. IsFiniteSet(OpsOf(g)) /\ pending[g] = Cardinality(OpsOf(g))
    BY DEF IInv, SocksInv, Counted
  <2>2. CASE g = f
    <3>1. OpsOf(g)' = OpsOf(g) \cup {op}
      BY <1>4, <1>5, <2>2 DEF OpsOf
    <3>2. op \notin OpsOf(g)
      BY <1>4, <1>10, <1>2 DEF OpsOf
    <3>3. pending'[g] = pending[g] + 1
      BY <1>6, <2>2 DEF IInv, TypeOK
    <3>4. QED
      BY <2>1, <3>1, <3>2, <3>3, FS_AddElement
  <2>3. CASE g # f
    <3>1. OpsOf(g)' = OpsOf(g) /\ pending'[g] = pending[g]
      BY <1>4, <1>5, <1>6, <2>3 DEF OpsOf, IInv, TypeOK
    <3>2. QED
      BY <2>1, <3>1
  <2>4. QED
    BY <2>2, <2>3
<1>14. EnabledHasOp'
  BY <1>4, <1>5, <1>8 DEF IInv, SocksInv, EnabledHasOp, Current
<1>15. NoStaleEvent'
  BY <1>4, <1>5, <1>8, <1>9, <1>10 DEF IInv, SocksInv, NoStaleEvent, Current
<1>16. HandlersHaveNotifier'
  BY <1>3, <1>4, <1>5 DEF IInv, SocksInv, HandlersHaveNotifier
<1>17. QED
  BY <1>7, <1>11, <1>12, <1>13, <1>14, <1>15, <1>16 DEF IInv, SocksInv

-----------------------------------------------------------------------------
(***************************************************************************)
(* A notifier is disabled.                                                 *)
(***************************************************************************)
\* What an operation is for does not depend on how it stands.
LEMMA CancelledOps ==
    ASSUME IInv, NEW f
    PROVE  /\ \A p \in Cancelled(f) :
                 /\ p \in Operation
                 /\ \E o \in ops : /\ p.fd = o.fd /\ p.sn = o.sn /\ p.type = o.type
                                   /\ p.rev = o.rev /\ p.for = o.for
                                   /\ p = [o EXCEPT !.st = p.st]
                                   /\ p.st = IF o.fd = f /\ o.st = "waits" THEN "aborted" ELSE o.st
           /\ \A o \in ops : \E p \in Cancelled(f) :
                 p.fd = o.fd /\ p.type = o.type /\ p.rev = o.rev
<1> DEFINE C(o) == [o EXCEPT !.st = IF o.fd = f /\ o.st = "waits" THEN "aborted" ELSE @]
<1>1. Cancelled(f) = {C(o) : o \in ops}
  BY DEF Cancelled
<1>2. \A o \in ops : /\ C(o) \in Operation
                     /\ C(o).fd = o.fd /\ C(o).sn = o.sn /\ C(o).type = o.type
                     /\ C(o).rev = o.rev /\ C(o).for = o.for
                     /\ C(o) = [o EXCEPT !.st = C(o).st]
                     /\ C(o).st = IF o.fd = f /\ o.st = "waits" THEN "aborted" ELSE o.st
  BY DEF IInv, TypeOK, Operation
<1> HIDE DEF C
<1>3. QED
  BY <1>1, <1>2

\* As many operations of each descriptor as before.
LEMMA CancelledCount ==
    ASSUME IInv, NEW f, NEW g \in Fd
    PROVE  LET S == {p \in Cancelled(f) : p.fd = g}
           IN  IsFiniteSet(S) /\ Cardinality(S) = Cardinality(OpsOf(g))
<1> DEFINE C(o) == [o EXCEPT !.st = IF o.fd = f /\ o.st = "waits" THEN "aborted" ELSE @]
           S == {p \in Cancelled(f) : p.fd = g}
           map == [o \in OpsOf(g) |-> C(o)]
<1>1. Cancelled(f) = {C(o) : o \in ops}
  BY DEF Cancelled
<1>2. \A o \in ops : C(o).fd = o.fd /\ C(o).type = o.type /\ C(o).rev = o.rev
  BY DEF IInv, TypeOK, Operation
<1> HIDE DEF C
<1>3. map \in Bijection(OpsOf(g), S)
  <2>1. map \in [OpsOf(g) -> S] /\ DOMAIN map = OpsOf(g)
    BY <1>1, <1>2 DEF OpsOf
  <2>2. \A o, p \in OpsOf(g) : map[o] = map[p] => o = p
    BY <1>2 DEF OpsOf, IInv, SocksInv, Unique
  <2>3. \A q \in S : \E o \in OpsOf(g) : map[o] = q
    BY <1>1, <1>2 DEF OpsOf
  <2> HIDE DEF map, S
  <2>4. QED
    BY <2>1, <2>2, <2>3, Zenon DEF Bijection, Injection, IsInjective, Surjection
<1>4. QED
  BY <1>3, FS_Bijection DEF ExistsBijection, IInv, SocksInv, Counted

LEMMA UnregisterStep ==
    ASSUME IInv, NEW n \in Notifier, Unregister(n)
    PROVE  IInv'
<1> DEFINE f == FdOf[n]
           t == TypeOf[n]
           none == \A u \in Type : notif'[f][u] = NoNotifier
<1>1. f \in Fd /\ t \in Type
  BY TypeAssumption DEF Fd
<1>2. /\ notif' = [notif EXCEPT ![f][t] = NoNotifier]
      /\ revision' = [revision EXCEPT ![f][t] = @ + 1]
      /\ ops' = IF none THEN Cancelled(f) ELSE ops
      /\ UNCHANGED <<loop, service, timer, sn, made, pending>>
  BY DEF Unregister, NextRevision
<1>3. \A g \in Fd, u \in Type :
        /\ revision[g][u] \in Nat
        /\ g = f /\ u = t => notif'[g][u] = NoNotifier /\ revision'[g][u] = revision[g][u] + 1
        /\ g # f \/ u # t => notif'[g][u] = notif[g][u] /\ revision'[g][u] = revision[g][u]
  BY <1>1, <1>2 DEF IInv, TypeOK
<1>4. /\ \A p \in ops' :
            /\ p \in Operation
            /\ \E o \in ops : /\ p.fd = o.fd /\ p.sn = o.sn /\ p.type = o.type
                              /\ p.rev = o.rev /\ p.for = o.for
                              /\ p = [o EXCEPT !.st = p.st]
                              /\ p.st = IF none /\ o.fd = f /\ o.st = "waits"
                                        THEN "aborted" ELSE o.st
      /\ \A o \in ops : \E p \in ops' : p.fd = o.fd /\ p.type = o.type /\ p.rev = o.rev
  <2>1. CASE none
    BY <1>2, <2>1, CancelledOps
  <2>2. CASE ~none
    <3>1. \A o \in ops : o \in Operation /\ o = [o EXCEPT !.st = o.st]
      BY DEF IInv, TypeOK, Operation
    <3>2. QED
      BY <1>2, <2>2, <3>1
  <2>3. QED
    BY <2>1, <2>2
<1>5. TypeOK'
  <2>1. /\ notif' \in [Fd -> [Type -> Notifier \cup {NoNotifier}]]
        /\ revision' \in [Fd -> [Type -> Nat]]
    BY <1>1, <1>2 DEF IInv, TypeOK
  <2>2. QED
    BY <1>2, <1>4, <2>1 DEF IInv, TypeOK, loop, service, timer, Operation
<1>6. \A o \in ops : /\ o.fd \in Fd /\ o.type \in Type /\ o.rev \in Nat /\ o.for \in Notifier
                     /\ o.rev <= revision[o.fd][o.type]
  BY DEF IInv, TypeOK, Operation, SocksInv, NotAhead
<1>7. \A o \in ops : none /\ o.fd = f => o.rev < revision'[o.fd][o.type]
  <2> SUFFICES ASSUME NEW o \in ops, none, o.fd = f
               PROVE  o.rev < revision'[o.fd][o.type]
    OBVIOUS
  <2>1. CASE o.type = t
    BY <1>3, <1>6, <2>1
  <2>2. CASE o.type # t
    <3>1. notif[f][o.type] = NoNotifier
      BY <1>1, <1>3, <1>6, <2>2
    <3>2. o.rev # revision[f][o.type]
      BY <1>1, <1>6, <3>1, NotifierAssumption DEF IInv, SocksInv, NoStaleEvent, Current
    <3>3. QED
      BY <1>1, <1>3, <1>6, <2>2, <3>2
  <2>3. QED
    BY <2>1, <2>2
<1>8. Unique'
  <2> SUFFICES ASSUME NEW p \in ops', NEW q \in ops',
                      p.fd = q.fd, p.type = q.type, p.rev = q.rev
               PROVE  p = q
    BY DEF Unique
  <2>1. PICK o \in ops : /\ p.fd = o.fd /\ p.type = o.type /\ p.rev = o.rev
                         /\ p = [o EXCEPT !.st = p.st]
                         /\ p.st = IF none /\ o.fd = f /\ o.st = "waits"
                                   THEN "aborted" ELSE o.st
    BY <1>4
  <2>2. PICK w \in ops : /\ q.fd = w.fd /\ q.type = w.type /\ q.rev = w.rev
                         /\ q = [w EXCEPT !.st = q.st]
                         /\ q.st = IF none /\ w.fd = f /\ w.st = "waits"
                                   THEN "aborted" ELSE w.st
    BY <1>4
  <2>3. o = w
    BY <2>1, <2>2 DEF IInv, SocksInv, Unique
  <2>4. QED
    BY <2>1, <2>2, <2>3
<1>9. NotAhead' /\ AbortedOld'
  BY <1>3, <1>4, <1>6, <1>7 DEF IInv, SocksInv, NotAhead, AbortedOld
<1>10. Counted'
  BY <1>2, CancelledCount DEF IInv, SocksInv, Counted, OpsOf
<1>11. EnabledHasOp'
  <2> SUFFICES ASSUME NEW g \in Fd, NEW u \in Type, notif'[g][u] # NoNotifier
               PROVE  \E p \in ops' : p.fd = g /\ p.type = u /\ p.rev = revision'[g][u]
    BY DEF EnabledHasOp, Current
  <2>1. notif[g][u] # NoNotifier /\ revision'[g][u] = revision[g][u]
    BY <1>3
  <2>2. PICK o \in ops : o.fd = g /\ o.type = u /\ o.rev = revision[g][u]
    BY <2>1 DEF IInv, SocksInv, EnabledHasOp, Current
  <2>3. QED
    BY <1>4, <2>1, <2>2
<1>12. NoStaleEvent'
  <2> SUFFICES ASSUME NEW g \in Fd, NEW u \in Type, NEW p \in ops',
                      p.fd = g, p.type = u, p.rev = revision'[g][u]
               PROVE  notif'[g][u] = p.for
    BY DEF NoStaleEvent, Current
  <2>1. PICK o \in ops : p.fd = o.fd /\ p.type = o.type /\ p.rev = o.rev /\ p.for = o.for
    BY <1>4
  <2>2. g # f \/ u # t
    BY <1>3, <1>6, <2>1
  <2>3. QED
    BY <1>3, <2>1, <2>2 DEF IInv, SocksInv, NoStaleEvent, Current
<1>13. HandlersHaveNotifier'
  BY <1>2, <1>4 DEF IInv, SocksInv, HandlersHaveNotifier
<1>14. QED
  BY <1>5, <1>8, <1>9, <1>10, <1>11, <1>12, <1>13 DEF IInv, SocksInv

-----------------------------------------------------------------------------
(***************************************************************************)
(* An operation becomes ready, is started again, or ends.                  *)
(***************************************************************************)
LEMMA RestampStep ==
    ASSUME IInv, NEW o \in ops, NEW s \in {"waits", "ready"},
           ops' = (ops \ {o}) \cup {[o EXCEPT !.st = s]},
           UNCHANGED <<sn, made, notif, revision, pending>>
    PROVE  SocksInv' /\ ops' \subseteq Operation
<1> DEFINE p == [o EXCEPT !.st = s]
<1>1. /\ p \in Operation /\ p.fd = o.fd /\ p.sn = o.sn /\ p.type = o.type
      /\ p.rev = o.rev /\ p.for = o.for /\ p.st = s
  BY DEF IInv, TypeOK, Operation
<1> HIDE DEF p
<1>2. ops' = (ops \ {o}) \cup {p}
  BY DEF p
<1>3. Unique' /\ NotAhead' /\ AbortedOld'
  BY <1>1, <1>2 DEF IInv, SocksInv, Unique, NotAhead, AbortedOld
<1>4. Counted'
  <2> SUFFICES ASSUME NEW g \in Fd
               PROVE  IsFiniteSet(OpsOf(g)') /\ pending[g] = Cardinality(OpsOf(g)')
    BY DEF Counted
  <2>1. IsFiniteSet(OpsOf(g)) /\ pending[g] = Cardinality(OpsOf(g)) /\ pending[g] \in Nat
    BY DEF IInv, SocksInv, Counted, TypeOK
  <2>2. CASE g = o.fd
    <3>1. OpsOf(g)' = (OpsOf(g) \ {o}) \cup {p}
      BY <1>1, <1>2, <2>2 DEF OpsOf
    <3>2. o \in OpsOf(g)
      BY <2>2 DEF OpsOf
    <3>3. p \notin OpsOf(g) \ {o}
      BY <1>1 DEF OpsOf, IInv, SocksInv, Unique
    <3>4. /\ IsFiniteSet(OpsOf(g) \ {o})
          /\ Cardinality(OpsOf(g) \ {o}) = Cardinality(OpsOf(g)) - 1
      BY <2>1, <3>2, FS_RemoveElement
    <3> DEFINE rest == OpsOf(g) \ {o}
    <3>5. IsFiniteSet(rest \cup {p}) /\ Cardinality(rest \cup {p}) = Cardinality(rest) + 1
      BY <3>3, <3>4, FS_AddElement
    <3>6. QED
      BY <2>1, <3>1, <3>4, <3>5
  <2>3. CASE g # o.fd
    <3>1. OpsOf(g)' = OpsOf(g)
      BY <1>1, <1>2, <2>3 DEF OpsOf
    <3>2. QED
      BY <2>1, <3>1
  <2>4. QED
    BY <2>2, <2>3
<1>5. EnabledHasOp'
  BY <1>1, <1>2 DEF IInv, SocksInv, EnabledHasOp, Current
<1>6. NoStaleEvent' /\ HandlersHaveNotifier'
  BY <1>1, <1>2 DEF IInv, SocksInv, NoStaleEvent, Current, HandlersHaveNotifier
<1>7. ops' \subseteq Operation
  BY <1>1, <1>2 DEF IInv, TypeOK
<1>8. QED
  BY <1>3, <1>4, <1>5, <1>6, <1>7 DEF SocksInv

LEMMA EndStep ==
    ASSUME IInv, NEW o \in ops, o.rev < revision[o.fd][o.type],
           ops' = ops \ {o},
           pending' = [pending EXCEPT ![o.fd] = @ - 1],
           UNCHANGED <<sn, made, notif, revision>>
    PROVE  SocksInv' /\ pending' \in [Fd -> Nat]
<1>1. o.fd \in Fd /\ o.type \in Type /\ o.rev \in Nat /\ revision[o.fd][o.type] \in Nat
  BY DEF IInv, TypeOK, Operation
<1>2. Unique' /\ NotAhead' /\ AbortedOld' /\ NoStaleEvent' /\ HandlersHaveNotifier'
  BY DEF IInv, SocksInv, Unique, NotAhead, AbortedOld, NoStaleEvent, Current, HandlersHaveNotifier
<1>3. EnabledHasOp'
  BY <1>1 DEF IInv, SocksInv, EnabledHasOp, Current
<1>4. Counted' /\ pending' \in [Fd -> Nat]
  <2>1. \A g \in Fd : /\ IsFiniteSet(OpsOf(g)') /\ pending'[g] = Cardinality(OpsOf(g)')
                      /\ pending'[g] \in Nat
    <3> TAKE g \in Fd
    <3>1. IsFiniteSet(OpsOf(g)) /\ pending[g] = Cardinality(OpsOf(g)) /\ pending[g] \in Nat
      BY DEF IInv, SocksInv, Counted, TypeOK
    <3>2. CASE g = o.fd
      <4>1. OpsOf(g)' = OpsOf(g) \ {o} /\ o \in OpsOf(g)
        BY <3>2 DEF OpsOf
      <4>2. pending'[g] = pending[g] - 1
        BY <1>1, <3>2 DEF IInv, TypeOK
      <4>3. /\ IsFiniteSet(OpsOf(g) \ {o})
            /\ Cardinality(OpsOf(g) \ {o}) = Cardinality(OpsOf(g)) - 1
            /\ Cardinality(OpsOf(g) \ {o}) \in Nat
        BY <3>1, <4>1, FS_RemoveElement, FS_CardinalityType
      <4>4. QED
        BY <3>1, <4>1, <4>2, <4>3
    <3>3. CASE g # o.fd
      <4>1. OpsOf(g)' = OpsOf(g) /\ pending'[g] = pending[g]
        BY <1>1, <3>3 DEF OpsOf, IInv, TypeOK
      <4>2. QED
        BY <3>1, <4>1
    <3>4. QED
      BY <3>2, <3>3
  <2>2. pending' \in [Fd -> Nat]
    BY <2>1 DEF IInv, TypeOK
  <2>3. QED
    BY <2>1, <2>2 DEF Counted
<1>5. QED
  BY <1>2, <1>3, <1>4 DEF SocksInv

LEMMA HandlerStep ==
    ASSUME IInv, NEW o \in ops, Handler(o), events' = TRUE
    PROVE  IInv'
<1>1. /\ o.fd \in Fd /\ o.type \in Type /\ o.rev \in Nat
      /\ revision[o.fd][o.type] \in Nat
      /\ o.rev <= revision[o.fd][o.type]
      /\ o.st \in {"waits", "ready", "aborted"}
  BY DEF IInv, TypeOK, Operation, SocksInv, NotAhead
<1>2. UNCHANGED <<service, timer, sn, made, notif, revision>> /\ o.st # "waits"
  BY DEF Handler
<1>3. pc' \in {"eventInRun", "eventInPoll", "loop", "poll"}
  BY DEF Handler, Event, Return
<1>4. /\ SocksInv' /\ ops' \subseteq Operation
      /\ pending' \in [Fd -> Nat]
  <2>1. CASE o.rev = revision[o.fd][o.type] /\ o.st = "ready"
    <3>1. Restarted(o)
      BY <2>1 DEF Handler
    <3>2. QED
      BY <1>2, <3>1, RestampStep DEF Restarted, IInv, TypeOK
  <2>2. CASE ~(o.rev = revision[o.fd][o.type] /\ o.st = "ready")
    <3>1. ops' = ops \ {o} /\ pending' = [pending EXCEPT ![o.fd] = @ - 1]
      BY <2>2 DEF Handler
    <3>2. o.rev < revision[o.fd][o.type]
      BY <1>1, <1>2, <2>2 DEF IInv, SocksInv, AbortedOld
    <3>3. QED
      BY <1>2, <3>1, <3>2, EndStep DEF IInv, TypeOK
  <2>3. QED
    BY <2>1, <2>2
<1>5. QED
  BY <1>2, <1>3, <1>4 DEF IInv, TypeOK, service, timer, Operation

-----------------------------------------------------------------------------
(***************************************************************************)
(* The cleanup takes nothing that an operation needs.                      *)
(***************************************************************************)
LEMMA CleanupStep ==
    ASSUME IInv, Cleanup
    PROVE  /\ SocksInv'
           /\ sn' \in [Fd -> 0..MaxStart] /\ made' \in 0..MaxStart
           /\ notif' \in [Fd -> [Type -> Notifier \cup {NoNotifier}]]
           /\ revision' \in [Fd -> [Type -> Nat]]
           /\ pending' \in [Fd -> Nat]
           /\ ops' \subseteq Operation
<1>1. \A f \in Fd : Removable(f) => OpsOf(f) = {} /\ pending[f] = 0
  BY FS_EmptySet DEF Removable, IInv, SocksInv, Counted
<1>2. \A o \in ops : o.fd \in Fd /\ o.type \in Type /\ ~Removable(o.fd)
  BY <1>1 DEF OpsOf, IInv, TypeOK, Operation
<1>3. \A f \in Fd : /\ ~Removable(f) => /\ sn'[f] = sn[f] /\ notif'[f] = notif[f]
                                        /\ revision'[f] = revision[f]
                    /\ pending'[f] = pending[f]
                    /\ Removable(f) => \A t \in Type : notif'[f][t] = NoNotifier
  BY <1>1 DEF Cleanup
<1>4. ops' = ops /\ made' = made
  BY DEF Cleanup
<1>5. /\ sn' \in [Fd -> 0..MaxStart]
      /\ notif' \in [Fd -> [Type -> Notifier \cup {NoNotifier}]]
      /\ revision' \in [Fd -> [Type -> Nat]]
      /\ pending' \in [Fd -> Nat]
  BY StartAssumption DEF Cleanup, IInv, TypeOK
<1>6. Unique' /\ NotAhead' /\ AbortedOld' /\ HandlersHaveNotifier'
  BY <1>2, <1>3, <1>4 DEF IInv, SocksInv, Unique, NotAhead, AbortedOld, HandlersHaveNotifier
<1>7. Counted'
  BY <1>3, <1>4 DEF IInv, SocksInv, Counted, OpsOf
<1>8. EnabledHasOp' /\ NoStaleEvent'
  BY <1>2, <1>3, <1>4 DEF IInv, SocksInv, EnabledHasOp, NoStaleEvent, Current
<1>9. QED
  BY <1>4, <1>5, <1>6, <1>7, <1>8 DEF SocksInv, IInv, TypeOK

-----------------------------------------------------------------------------
LEMMA NextInv == IInv /\ [Next]_vars => IInv'
<1> SUFFICES ASSUME IInv, [Next]_vars PROVE IInv'
  OBVIOUS
<1> USE DEF service, timer
<1>1. CASE \E n \in Notifier : Register(n) \/ Unregister(n)
  BY <1>1, RegisterStep, UnregisterStep
<1>2. CASE RegisterTimer \/ UnregisterTimer \/ TimerExpires
  BY <1>2, OtherSteps DEF RegisterTimer, UnregisterTimer, TimerExpires,
     IInv, TypeOK, loop, socks, Operation
<1>3. CASE WakeUp \/ Interrupt
  BY <1>3, OtherSteps DEF WakeUp, Interrupt, IInv, TypeOK, loop, socks, Operation
<1>4. CASE BecomesReady
  <2>1. PICK o \in ops : /\ ops' = (ops \ {o}) \cup {[o EXCEPT !.st = "ready"]}
                         /\ UNCHANGED <<loop, service, timer, sn, made, notif, revision, pending>>
    BY <1>4 DEF BecomesReady
  <2>2. SocksInv' /\ ops' \subseteq Operation
    BY <2>1, RestampStep
  <2>3. QED
    BY <2>1, <2>2 DEF IInv, TypeOK, loop, Operation
<1>5. CASE ProcessEvents \/ Interrupted \/ EventDone \/ RunOneReturns \/ PollReturns
  BY <1>5, OtherSteps DEF ProcessEvents, Interrupted, EventDone, RunOneReturns, PollReturns,
     IInv, TypeOK, socks, Operation
<1>6. CASE Enter \/ Block \/ LoopStart
  BY <1>6, OtherSteps DEF Enter, Block, LoopStart, TimerStart, IInv, TypeOK, socks, Operation
<1>7. CASE RunTimer
  BY <1>7, OtherSteps DEF RunTimer, Event, Return, IInv, TypeOK, socks, Operation
<1>8. CASE RunSocket
  <2>1. PICK o \in ops : Handler(o) /\ events' = TRUE
    BY <1>8 DEF RunSocket
  <2>2. QED
    BY <2>1, HandlerStep
<1>9. CASE LoopEnd
  <2>1. CASE UNCHANGED socks
    BY <1>9, <2>1, OtherSteps DEF LoopEnd, IInv, TypeOK, socks, Operation
  <2>2. CASE Cleanup
    BY <1>9, <2>2, CleanupStep DEF LoopEnd, IInv, TypeOK, Operation
  <2>3. QED
    BY <1>9, <2>1, <2>2 DEF LoopEnd
<1>10. CASE UNCHANGED vars
  BY <1>10, OtherSteps DEF vars, IInv, TypeOK, loop, socks, Operation
<1>11. QED
  BY <1>1, <1>2, <1>3, <1>4, <1>5, <1>6, <1>7, <1>8, <1>9, <1>10
     DEF Next, Loop, Application, Environment

\* The inductive invariant holds in every reachable state.
THEOREM Invariant == Spec => []IInv
<1>1. QED
  BY InitInv, NextInv, PTL DEF Spec

-----------------------------------------------------------------------------
(* The properties. *)

\* Every variable of the dispatcher keeps its type; in particular
\* pending_operations never becomes negative.
THEOREM TypeCorrect == Spec => []TypeOK
<1>1. IInv => TypeOK
  BY DEF IInv
<1>2. QED
  BY <1>1, Invariant, PTL

\* A handler that takes itself for up to date sends its event to the notifier
\* the operation was started for.
THEOREM EventsAreNotStale == Spec => []NoStaleEvent
<1>1. IInv => NoStaleEvent
  BY DEF IInv, SocksInv
<1>2. QED
  BY <1>1, Invariant, PTL

\* An enabled notifier is watched by exactly one operation that counts.
THEOREM OneOperationWatches == Spec => []EnabledIsWatched
<1>1. IInv => EnabledIsWatched
  <2> SUFFICES ASSUME IInv, NEW f \in Fd, NEW t \in Type, notif[f][t] # NoNotifier
               PROVE  Cardinality(Current(f, t)) = 1
    BY DEF EnabledIsWatched
  <2>1. PICK o \in ops : o \in Current(f, t)
    BY DEF IInv, SocksInv, EnabledHasOp
  <2>2. Current(f, t) = {o}
    BY <2>1 DEF Current, IInv, SocksInv, Unique
  <2>3. QED
    BY <2>2, FS_Singleton
<1>2. QED
  BY <1>1, Invariant, PTL

\* No handler is left with a QAsioSockNotifier that has been deleted.
THEOREM HandlersAreSafe == Spec => []HandlersHaveNotifier
<1>1. IInv => HandlersHaveNotifier
  BY DEF IInv, SocksInv
<1>2. QED
  BY <1>1, Invariant, PTL
=============================================================================
