---------------------------- MODULE RefundProofs ----------------------------
(***************************************************************************)
(* Proofs about Refund, for any payments, amounts and requests and any     *)
(* number of failing queries, and about requests that wait for each other. *)
(***************************************************************************)
EXTENDS MCRefund, FiniteSetTheorems, WellFoundedInduction, TLAPS

-----------------------------------------------------------------------------
(* What a step does to the requests and to the refunds *)

\* Request h moves on with the refund it works on, if any.
Moves(h) ==
    /\ handler' \in [Requests -> Handler]
    /\ \A g \in Requests : handler'[g].row = handler[g].row
    /\ \A g \in Requests \ {h} : handler'[g] = handler[g]

\* Payment and amount of every refund stay.
SameRefunds ==
    /\ refund' \in [Creators -> Row \cup {NoRefund}]
    /\ \A c \in Creators : (refund'[c] = NoRefund) = (refund[c] = NoRefund)
    /\ \A c \in Creators : refund[c] # NoRefund =>
           refund'[c].pay = refund[c].pay /\ refund'[c].amount = refund[c].amount

LEMMA GotoMoves ==
    ASSUME RTypeOK, NEW h \in Requests, NEW s,
           s \in {"idle", "insert", "read", "approve", "fail", "done"} \cup TryStages,
           Goto(h, s)
    PROVE  Moves(h) /\ handler'[h].stage = s
<1>1. PICK t : t = [handler[h] EXCEPT !.stage = s]
  OBVIOUS
<1>2. handler[h] \in Handler
  BY DEF RTypeOK
<1>3. t \in Handler /\ t.stage = s /\ t.row = handler[h].row
  BY <1>1, <1>2 DEF Handler
<1>4. handler' = [handler EXCEPT ![h] = t]
  BY <1>1 DEF Goto
<1> QED
  BY <1>3, <1>4 DEF Moves, RTypeOK

LEMMA RowOf ==
    ASSUME RefundInv, NEW h \in Requests, handler[h].row # NoRefund
    PROVE  /\ handler[h].row \in Creators
           /\ Mine(h) \in Row
           /\ Mine(h).pay \in Payments
           /\ Mine(h).amount \in Parts
<1>1. handler[h].row \in Creators
  BY DEF RefundInv, RTypeOK, Handler
<1>2. Mine(h) \in Row
  BY <1>1 DEF RefundInv, RTypeOK, InsertedOK, Mine
<1> QED
  BY <1>1, <1>2 DEF Row

LEMMA SaveIs ==
    ASSUME RefundInv, NEW h \in Requests, handler[h].row # NoRefund,
           NEW status \in {"approved", "processed", "failed"}, SaveRefund(h, status)
    PROVE  /\ SameRefunds
           /\ refund'[handler[h].row].status = status
           /\ \A c \in Creators \ {handler[h].row} : refund'[c] = refund[c]
<1>1. handler[h].row \in Creators /\ Mine(h) \in Row
  BY RowOf
<1>2. PICK t : t = [Mine(h) EXCEPT !.status = status]
  OBVIOUS
<1>3. t \in Row /\ t.status = status /\ t.pay = Mine(h).pay /\ t.amount = Mine(h).amount
  BY <1>1, <1>2 DEF Row
<1>4. refund' = [refund EXCEPT ![handler[h].row] = t]
  BY <1>2 DEF SaveRefund, Mine
<1>5. NoRefund \notin Row
  BY RefundAssumption
<1> QED
  BY <1>1, <1>3, <1>4, <1>5 DEF SameRefunds, Mine, RefundInv, RTypeOK

-----------------------------------------------------------------------------
(* The steps that leave the gateway alone *)

\* Who has a refund keeps it.
LEMMA MovesKeepInserted ==
    ASSUME RefundInv, NEW h \in Requests, Moves(h), SameRefunds,
           handler[h].row # NoRefund, handler'[h].stage \notin {"idle", "insert"}
    PROVE  InsertedOK'
<1>1. \A g \in Requests : handler[g].row # NoRefund =>
          /\ handler[g].row \in Creators
          /\ Mine(g) # NoRefund /\ Mine(g)' # NoRefund
          /\ Mine(g)'.pay = Mine(g).pay /\ Mine(g)'.amount = Mine(g).amount
  BY RowOf DEF SameRefunds, Mine, Moves, RefundInv, InsertedOK
<1>2. InsertedOK'
  <2>1. (\A c \in Creators : handler[c].stage \in {"idle", "insert"} => refund[c] = NoRefund)'
    BY DEF InsertedOK, RefundInv, Moves, SameRefunds, Requests
  <2>2. (\A g \in Requests : handler[g].stage = "insert" => g \in Creators)'
    BY DEF InsertedOK, RefundInv, Moves
  <2>3. (\A g \in Requests :
             handler[g].stage \notin {"idle", "insert", "done"} => handler[g].row # NoRefund)'
    BY DEF InsertedOK, RefundInv, Moves
  <2>4. (\A g \in Requests : handler[g].row # NoRefund =>
             handler[g].stage \notin {"idle", "insert"} /\ Mine(g) # NoRefund)'
    BY <1>1 DEF InsertedOK, RefundInv, Moves
  <2> QED
    BY <2>1, <2>2, <2>3, <2>4 DEF InsertedOK
<1> QED
  BY <1>2

\* A request that has a refund moves on; the gateway and the payments are left alone.
LEMMA MovesKeepRefunds ==
    ASSUME RefundInv, NEW h \in Requests, Moves(h), SameRefunds,
           handler[h].row # NoRefund,
           handler'[h].stage \notin {"idle", "insert"},
           handler'[h].stage \in {"gatewayrow", "gatewaysave", "save", "wallet", "post", "finish"} =>
               paidBack[h] = Mine(h).amount,
           \A c \in Creators : refund'[c] # NoRefund /\ refund'[c].status = "processed" =>
               \/ refund[c].status = "processed"
               \/ handler[h].row = c /\ paidBack[h] = Mine(h).amount,
           UNCHANGED <<paidBack, givenBack, paymentStatus>>,
           gatewayRow' \subseteq Requests,
           balance' \in Int,
           rows' \subseteq [by: Requests \cup Spenders, amount: Parts],
           spent' = spent,
           faults' \in 0 .. MaxFaults
    PROVE  RefundInv'
<1>1. \A g \in Requests : handler[g].row # NoRefund =>
          /\ handler[g].row \in Creators
          /\ Mine(g) # NoRefund /\ Mine(g)' # NoRefund
          /\ Mine(g)'.pay = Mine(g).pay /\ Mine(g)'.amount = Mine(g).amount
  BY RowOf DEF SameRefunds, Mine, Moves, RefundInv, InsertedOK
<1>2. InsertedOK'
  BY MovesKeepInserted
<1>3. RTypeOK'
  <2>1. (\A g \in Requests :
             handler[g].stage \in TryStages \cup {"read", "approve", "fail"} =>
                 handler[g].row # NoRefund /\ Mine(g) # NoRefund)'
    BY <1>2 DEF InsertedOK, TryStages
  <2> QED
    BY <2>1 DEF RTypeOK, RefundInv, Moves, SameRefunds
<1>4. GatewayOK'
  BY <1>1 DEF GatewayOK, RefundInv, Moves
<1>5. PassedOK'
  BY <1>1 DEF PassedOK, RefundInv, Moves, InsertedOK
<1>6. RefundsArePaidBack'
  <2>1. RefundedIsPaidBack'
    BY DEF RefundsArePaidBack, RefundedIsPaidBack, RefundInv
  <2>2. (\A g \in Requests :
            handler[g].stage \in {"wallet", "post", "finish"} => paidBack[g] = Mine(g).amount)'
    BY <1>5 DEF PassedOK
  <2>3. ASSUME NEW c \in Creators, refund'[c] # NoRefund, refund'[c].status = "processed"
        PROVE  \E g \in Requests : handler'[g].row = c /\ paidBack'[g] = refund'[c].amount
    <3>1. refund[c] # NoRefund /\ refund'[c].amount = refund[c].amount
      BY <2>3 DEF SameRefunds
    <3>2. \E g \in Requests : handler[g].row = c /\ paidBack[g] = refund[c].amount
      BY <2>3, <3>1 DEF RefundInv, RefundsArePaidBack, ProcessedIsPaidBack, Mine
    <3> QED
      BY <3>1, <3>2 DEF Moves
  <2> QED
    BY <2>1, <2>2, <2>3 DEF RefundsArePaidBack, ProcessedIsPaidBack
<1> QED
  BY <1>2, <1>3, <1>4, <1>5, <1>6 DEF RefundInv
-----------------------------------------------------------------------------
(* The other steps *)

\* A request starts, or ends before it has a refund.
LEMMA StartsKeep ==
    ASSUME RefundInv, NEW h \in Requests,
           handler' \in [Requests -> Handler],
           \A g \in Requests \ {h} : handler'[g] = handler[g],
           handler[h].row = NoRefund,
           \/ /\ handler'[h].row = NoRefund
              /\ handler'[h].stage \in {"insert", "done"}
              /\ handler'[h].stage = "insert" => h \in Creators /\ refund[h] = NoRefund
           \/ /\ handler'[h].row \in Creators
              /\ refund[handler'[h].row] # NoRefund
              /\ handler'[h].stage = "read",
           faults' \in 0 .. MaxFaults,
           UNCHANGED <<balance, rows, refund, gatewayRow, paidBack, givenBack, paymentStatus,
                       spent>>
    PROVE  RefundInv'
<1>1. \A g \in Requests \ {h} : Mine(g)' = Mine(g)
  BY DEF Mine
<1>2. NoRefund \notin Creators
  BY RefundAssumption
<1>3. InsertedOK'
  BY <1>1, <1>2 DEF InsertedOK, RefundInv, Mine, Requests
<1>4. RTypeOK'
  <2>1. (\A g \in Requests :
             handler[g].stage \in TryStages \cup {"read", "approve", "fail"} =>
                 handler[g].row # NoRefund /\ Mine(g) # NoRefund)'
    BY <1>3 DEF InsertedOK, TryStages
  <2> QED
    BY <2>1 DEF RTypeOK, RefundInv
<1>5. GatewayOK'
  BY <1>1 DEF GatewayOK, RefundInv, RTypeOK
<1>6. PassedOK'
  BY <1>1 DEF PassedOK, RefundInv
<1>7. RefundsArePaidBack'
  <2>1. RefundedIsPaidBack'
    BY DEF RefundsArePaidBack, RefundedIsPaidBack, RefundInv
  <2>2. (\A g \in Requests :
            handler[g].stage \in {"wallet", "post", "finish"} => paidBack[g] = Mine(g).amount)'
    BY <1>6 DEF PassedOK
  <2>3. ASSUME NEW c \in Creators, refund'[c] # NoRefund, refund'[c].status = "processed"
        PROVE  \E g \in Requests : handler'[g].row = c /\ paidBack'[g] = refund'[c].amount
    <3>1. PICK g \in Requests : handler[g].row = c /\ paidBack[g] = refund[c].amount
      BY <2>3 DEF RefundInv, RefundsArePaidBack, ProcessedIsPaidBack, Mine
    <3>2. g # h
      BY <1>2, <3>1
    <3> QED
      BY <3>1, <3>2
  <2> QED
    BY <2>1, <2>2, <2>3 DEF RefundsArePaidBack, ProcessedIsPaidBack
<1> QED
  BY <1>3, <1>4, <1>5, <1>6, <1>7 DEF RefundInv

LEMMA CreateKeeps ==
    ASSUME RefundInv, NEW h \in Creators, NEW p \in Payments, NEW a \in Parts,
           CreateRefund(h, p, a)
    PROVE  RefundInv'
<1> DEFINE next == IF a > Paid[p] \/ Refunded(p) THEN "done" ELSE "insert"
<1>1. next \in {"insert", "done"}
  OBVIOUS
<1>2. PICK t : t = [handler[h] EXCEPT !.pay = p, !.amount = a, !.stage = next]
  OBVIOUS
<1>3. handler' = [handler EXCEPT ![h] = t]
  BY <1>2 DEF CreateRefund
<1> HIDE DEF next
<1>4. h \in Requests /\ handler[h] \in Handler
  BY DEF Requests, RefundInv, RTypeOK
<1>5. t \in Handler /\ t.stage = next /\ t.row = handler[h].row
  BY <1>1, <1>2, <1>4 DEF Handler
<1>6. handler' \in [Requests -> Handler] /\ handler'[h] = t
      /\ \A g \in Requests \ {h} : handler'[g] = handler[g]
  BY <1>3, <1>4, <1>5 DEF RefundInv, RTypeOK
<1>7. handler[h].row = NoRefund /\ refund[h] = NoRefund
  BY <1>4 DEF CreateRefund, At, RefundInv, InsertedOK
<1>8. faults' \in 0 .. MaxFaults
      /\ UNCHANGED <<balance, rows, refund, gatewayRow, paidBack, givenBack, paymentStatus, spent>>
  BY DEF CreateRefund, RefundInv, RTypeOK
<1> QED
  BY <1>1, <1>4, <1>5, <1>6, <1>7, <1>8, StartsKeep

LEMMA RetryKeeps ==
    ASSUME RefundInv, NEW h \in Retriers, NEW c \in Creators, Retry(h, c)
    PROVE  RefundInv'
<1>1. PICK t : t = [handler[h] EXCEPT !.stage = "read", !.row = c]
  OBVIOUS
<1>2. handler' = [handler EXCEPT ![h] = t]
  BY <1>1 DEF Retry
<1>3. h \in Requests /\ handler[h] \in Handler
  BY DEF Requests, RefundInv, RTypeOK
<1>4. t \in Handler /\ t.stage = "read" /\ t.row = c
  BY <1>1, <1>3 DEF Handler
<1>5. handler' \in [Requests -> Handler] /\ handler'[h] = t
      /\ \A g \in Requests \ {h} : handler'[g] = handler[g]
  BY <1>2, <1>3, <1>4 DEF RefundInv, RTypeOK
<1>6. handler[h].row = NoRefund /\ refund[c] # NoRefund
  BY <1>3 DEF Retry, At, RefundInv, InsertedOK
<1>7. faults' \in 0 .. MaxFaults
      /\ UNCHANGED <<balance, rows, refund, gatewayRow, paidBack, givenBack, paymentStatus, spent>>
  BY DEF Retry, RefundInv, RTypeOK
<1> QED
  BY <1>3, <1>4, <1>5, <1>6, <1>7, StartsKeep

LEMMA InsertKeeps ==
    ASSUME RefundInv, NEW h \in Creators, InsertRefund(h)
    PROVE  RefundInv'
<1>1. PICK t : t = [handler[h] EXCEPT !.stage = "read", !.row = h]
  OBVIOUS
<1>2. PICK x : x = [pay |-> handler[h].pay, amount |-> handler[h].amount, status |-> "approved"]
  OBVIOUS
<1>3. handler' = [handler EXCEPT ![h] = t] /\ refund' = [refund EXCEPT ![h] = x]
  BY <1>1, <1>2 DEF InsertRefund
<1>4. h \in Requests /\ handler[h] \in Handler /\ handler[h].stage = "insert"
  BY DEF Requests, RefundInv, RTypeOK, InsertRefund, At
<1>5. t \in Handler /\ t.stage = "read" /\ t.row = h
  BY <1>1, <1>4 DEF Handler
<1>6. x \in Row /\ x.status = "approved"
  BY <1>2, <1>4 DEF Row, Handler
<1>7. x # NoRefund /\ NoRefund \notin Creators
  BY <1>6, RefundAssumption
<1>8. handler' \in [Requests -> Handler] /\ handler'[h] = t
      /\ \A g \in Requests \ {h} : handler'[g] = handler[g]
  BY <1>3, <1>4, <1>5 DEF RefundInv, RTypeOK
<1>9. handler[h].row = NoRefund /\ refund[h] = NoRefund
  BY <1>4 DEF RefundInv, InsertedOK
<1>10. refund' \in [Creators -> Row \cup {NoRefund}] /\ refund'[h] = x
       /\ \A c \in Creators \ {h} : refund'[c] = refund[c]
  BY <1>3, <1>6 DEF RefundInv, RTypeOK
<1>11. \A g \in Requests \ {h} : handler[g].row # NoRefund => Mine(g)' = Mine(g)
  <2> SUFFICES ASSUME NEW g \in Requests \ {h}, handler[g].row # NoRefund
               PROVE  Mine(g)' = Mine(g)
    OBVIOUS
  <2>1. handler[g].row \in Creators /\ Mine(g) \in Row
    BY RowOf
  <2>2. handler[g].row # h
    BY <1>9, <2>1, RefundAssumption DEF Mine
  <2> QED
    BY <1>8, <1>10, <2>1, <2>2 DEF Mine
<1>12. InsertedOK'
  <2>1. (\A c \in Creators : handler[c].stage \in {"idle", "insert"} => refund[c] = NoRefund)'
    BY <1>5, <1>8, <1>10 DEF InsertedOK, RefundInv, Requests
  <2>2. (\A g \in Requests : handler[g].stage = "insert" => g \in Creators)'
    BY <1>8 DEF InsertedOK, RefundInv
  <2>3. (\A g \in Requests :
             handler[g].stage \notin {"idle", "insert", "done"} => handler[g].row # NoRefund)'
    BY <1>5, <1>7, <1>8 DEF InsertedOK, RefundInv
  <2>4. (\A g \in Requests : handler[g].row # NoRefund =>
             handler[g].stage \notin {"idle", "insert"} /\ Mine(g) # NoRefund)'
    <3> SUFFICES ASSUME NEW g \in Requests, handler'[g].row # NoRefund
                 PROVE  handler'[g].stage \notin {"idle", "insert"} /\ Mine(g)' # NoRefund
      OBVIOUS
    <3>1. CASE g = h
      BY <1>5, <1>7, <1>8, <1>10, <3>1 DEF Mine
    <3>2. CASE g # h
      BY <1>8, <1>11, <3>2 DEF InsertedOK, RefundInv
    <3> QED
      BY <3>1, <3>2
  <2> QED
    BY <2>1, <2>2, <2>3, <2>4 DEF InsertedOK
<1>13. RTypeOK'
  <2>1. (\A g \in Requests :
             handler[g].stage \in TryStages \cup {"read", "approve", "fail"} =>
                 handler[g].row # NoRefund /\ Mine(g) # NoRefund)'
    BY <1>12 DEF InsertedOK, TryStages
  <2> QED
    BY <1>8, <1>10, <2>1 DEF RTypeOK, RefundInv, InsertRefund
<1>14. GatewayOK'
  BY <1>8, <1>9, <1>11 DEF GatewayOK, RefundInv, RTypeOK, InsertRefund
<1>15. PassedOK'
  <2> SUFFICES ASSUME NEW g \in Requests,
                      handler'[g].stage \in {"gatewayrow", "gatewaysave", "save", "wallet", "post",
                                             "finish"}
               PROVE  paidBack'[g] = Mine(g)'.amount
    BY DEF PassedOK
  <2>1. g # h
    BY <1>5, <1>8
  <2>2. handler[g].row # NoRefund
    BY <1>8, <2>1 DEF RefundInv, InsertedOK
  <2> QED
    BY <1>8, <1>11, <2>1, <2>2 DEF RefundInv, PassedOK, InsertRefund
<1>16. RefundsArePaidBack'
  <2>1. RefundedIsPaidBack'
    BY DEF RefundsArePaidBack, RefundedIsPaidBack, RefundInv, InsertRefund
  <2>2. (\A g \in Requests :
            handler[g].stage \in {"wallet", "post", "finish"} => paidBack[g] = Mine(g).amount)'
    BY <1>15 DEF PassedOK
  <2>3. ASSUME NEW c \in Creators, refund'[c] # NoRefund, refund'[c].status = "processed"
        PROVE  \E g \in Requests : handler'[g].row = c /\ paidBack'[g] = refund'[c].amount
    <3>1. c # h
      BY <1>6, <1>10, <2>3
    <3>2. PICK g \in Requests : handler[g].row = c /\ paidBack[g] = refund[c].amount
      BY <1>10, <2>3, <3>1 DEF RefundInv, RefundsArePaidBack, ProcessedIsPaidBack, Mine
    <3>3. g # h
      BY <1>7, <1>9, <3>2
    <3> QED
      BY <1>8, <1>10, <3>1, <3>2, <3>3 DEF InsertRefund
  <2> QED
    BY <2>1, <2>2, <2>3 DEF RefundsArePaidBack, ProcessedIsPaidBack
<1> QED
  BY <1>12, <1>13, <1>14, <1>15, <1>16 DEF RefundInv
\* The gateway pays back what is left of the payment, and not more.
LEMMA GatewayKeeps ==
    ASSUME RefundInv, NEW h \in Requests, At(h, "gateway"),
           Mine(h).amount <= Left(Mine(h).pay), PayBack(h), Goto(h, "gatewayrow"),
           UNCHANGED <<balance, rows, refund, gatewayRow, paymentStatus, spent, faults>>
    PROVE  RefundInv'
<1> DEFINE p == Mine(h).pay
           a == Mine(h).amount
<1>1. Moves(h) /\ handler'[h].stage = "gatewayrow"
  BY GotoMoves DEF RefundInv, TryStages
<1>2. handler[h].row # NoRefund
  BY DEF At, RefundInv, InsertedOK
<1>3. p \in Payments /\ a \in Parts /\ a \in Nat \ {0}
  BY <1>2, RowOf, RefundAssumption
<1>4. Paid[p] \in Nat /\ givenBack[p] \in Nat /\ givenBack[p] + a <= Paid[p]
  BY <1>3, RefundAssumption DEF Left, RefundInv, RTypeOK
<1>5. SameRefunds /\ \A g \in Requests : Mine(g)' = Mine(g)
  BY <1>1 DEF SameRefunds, RefundInv, RTypeOK, Moves, Mine
<1>6. paidBack' = [paidBack EXCEPT ![h] = a] /\ givenBack' = [givenBack EXCEPT ![p] = @ + a]
  BY DEF PayBack
<1> HIDE DEF p, a
<1>7. paidBack' \in [Requests -> Parts \cup {0}] /\ paidBack'[h] = a
      /\ \A g \in Requests \ {h} : paidBack'[g] = paidBack[g]
  BY <1>3, <1>6 DEF RefundInv, RTypeOK
<1>8. givenBack' \in [Payments -> Nat] /\ givenBack'[p] = givenBack[p] + a
      /\ \A q \in Payments \ {p} : givenBack'[q] = givenBack[q]
  BY <1>3, <1>4, <1>6 DEF RefundInv, RTypeOK
<1>9. InsertedOK'
  BY <1>1, <1>2, <1>5, MovesKeepInserted
<1>10. RTypeOK'
  <2>1. (\A g \in Requests :
             handler[g].stage \in TryStages \cup {"read", "approve", "fail"} =>
                 handler[g].row # NoRefund /\ Mine(g) # NoRefund)'
    BY <1>9 DEF InsertedOK, TryStages
  <2> QED
    BY <1>1, <1>7, <1>8, <2>1 DEF RTypeOK, RefundInv, Moves
<1>11. GatewayOK'
  <2>1. (\A q \in Payments : givenBack[q] <= Paid[q])'
    BY <1>4, <1>8 DEF RefundInv, GatewayOK
  <2>2. ASSUME NEW g \in Requests, paidBack'[g] > 0
        PROVE  handler'[g].row # NoRefund /\ paidBack'[g] <= givenBack'[Mine(g)'.pay]
    <3>1. CASE g = h
      BY <1>1, <1>2, <1>3, <1>4, <1>5, <1>7, <1>8, <3>1 DEF Moves, p
    <3>2. CASE g # h
      <4>1. handler[g].row # NoRefund /\ paidBack[g] <= givenBack[Mine(g).pay]
        BY <1>7, <2>2, <3>2 DEF RefundInv, GatewayOK
      <4>2. Mine(g).pay \in Payments /\ paidBack[g] \in Nat
        <5>1. Mine(g).pay \in Payments
          BY <4>1, RowOf
        <5>2. paidBack[g] \in Parts \cup {0}
          BY DEF RefundInv, RTypeOK
        <5>3. \A b \in Parts : b \in Nat
          BY RefundAssumption
        <5>4. paidBack[g] \in Nat
          BY <5>2, <5>3
        <5> QED
          BY <5>1, <5>4
      <4>3. givenBack[Mine(g).pay] \in Nat
            /\ givenBack[Mine(g).pay] <= givenBack'[Mine(g).pay]
        BY <1>3, <1>4, <1>8, <4>2 DEF RefundInv, RTypeOK
      <4>4. givenBack'[Mine(g).pay] \in Nat
        BY <1>8, <4>2
      <4> QED
        BY <1>1, <1>5, <1>7, <3>2, <4>1, <4>2, <4>3, <4>4 DEF Moves
    <3> QED
      BY <3>1, <3>2
  <2> QED
    BY <2>1, <2>2 DEF GatewayOK
<1>12. PassedOK'
  BY <1>1, <1>5, <1>7 DEF PassedOK, RefundInv, Moves, a
<1>13. RefundsArePaidBack'
  <2>1. ASSUME NEW q \in Payments, paymentStatus'[q] = "refunded"
        PROVE  givenBack'[q] = Paid[q]
    <3>1. givenBack[q] = Paid[q]
      BY <2>1 DEF RefundInv, RefundsArePaidBack, RefundedIsPaidBack
    <3>2. q # p
      BY <1>3, <1>4, <3>1
    <3> QED
      BY <1>8, <3>1, <3>2
  <2>2. (\A g \in Requests :
            handler[g].stage \in {"wallet", "post", "finish"} => paidBack[g] = Mine(g).amount)'
    BY <1>12 DEF PassedOK
  <2>3. ASSUME NEW c \in Creators, refund'[c] # NoRefund, refund'[c].status = "processed"
        PROVE  \E g \in Requests : handler'[g].row = c /\ paidBack'[g] = refund'[c].amount
    <3>1. PICK g \in Requests : handler[g].row = c /\ paidBack[g] = refund[c].amount
      BY <2>3 DEF RefundInv, RefundsArePaidBack, ProcessedIsPaidBack, Mine
    <3>2. paidBack'[g] = paidBack[g]
      BY <1>7, <3>1 DEF a, Mine
    <3> QED
      BY <1>1, <3>1, <3>2 DEF Moves
  <2> QED
    BY <2>1, <2>2, <2>3 DEF RefundsArePaidBack, RefundedIsPaidBack, ProcessedIsPaidBack
<1> QED
  BY <1>9, <1>10, <1>11, <1>12, <1>13 DEF RefundInv

\* The payment is only marked when the amount, which was paid back, is all of it.
LEMMA SavePaymentKeeps ==
    ASSUME RefundInv, NEW h \in Requests, SavePayment(h)
    PROVE  RefundInv'
<1> DEFINE p == Mine(h).pay
           a == Mine(h).amount
           new == IF a >= Paid[p] THEN "refunded" ELSE "completed"
<1>1. PICK next \in {<<"gatewaysave", "save">>, <<"save", "wallet">>} :
          /\ At(h, next[1]) /\ Goto(h, next[2])
          /\ paymentStatus' = [paymentStatus EXCEPT ![p] = new]
          /\ UNCHANGED <<balance, rows, refund, gatewayRow, paidBack, givenBack, spent, faults>>
  BY DEF SavePayment
<1>2. Moves(h) /\ handler[h].stage \in {"gatewaysave", "save"}
      /\ handler'[h].stage \in {"save", "wallet"}
  BY <1>1, GotoMoves DEF RefundInv, TryStages, At
<1>3. handler[h].row # NoRefund
  BY <1>2 DEF RefundInv, InsertedOK
<1>4. p \in Payments /\ a \in Nat \ {0}
  BY <1>3, RowOf, RefundAssumption
<1>5. Paid[p] \in Nat /\ givenBack[p] \in Nat /\ givenBack[p] <= Paid[p]
      /\ a = paidBack[h] /\ a <= givenBack[p]
  BY <1>2, <1>4, RefundAssumption DEF RefundInv, RTypeOK, GatewayOK, PassedOK
<1>6. new = "refunded" => givenBack[p] = Paid[p]
  BY <1>4, <1>5
<1>7. SameRefunds /\ \A g \in Requests : Mine(g)' = Mine(g)
  BY <1>1, <1>2 DEF SameRefunds, RefundInv, RTypeOK, Moves, Mine
<1>8. InsertedOK'
  BY <1>2, <1>3, <1>7, MovesKeepInserted
<1>9. new \in {"refunded", "completed"}
  OBVIOUS
<1> HIDE DEF p, a, new
<1>10. paymentStatus' \in [Payments -> {"completed", "refunded"}] /\ paymentStatus'[p] = new
       /\ \A q \in Payments \ {p} : paymentStatus'[q] = paymentStatus[q]
  BY <1>1, <1>4, <1>9 DEF RefundInv, RTypeOK
<1>11. RTypeOK'
  <2>1. (\A g \in Requests :
             handler[g].stage \in TryStages \cup {"read", "approve", "fail"} =>
                 handler[g].row # NoRefund /\ Mine(g) # NoRefund)'
    BY <1>8 DEF InsertedOK, TryStages
  <2> QED
    BY <1>1, <1>2, <1>10, <2>1 DEF RTypeOK, RefundInv, Moves
<1>12. GatewayOK'
  BY <1>1, <1>2, <1>7 DEF GatewayOK, RefundInv, Moves
<1>13. PassedOK'
  BY <1>1, <1>2, <1>5, <1>7 DEF PassedOK, RefundInv, Moves, a
<1>14. RefundsArePaidBack'
  <2>1. RefundedIsPaidBack'
    BY <1>1, <1>6, <1>10 DEF RefundInv, RefundsArePaidBack, RefundedIsPaidBack
  <2>2. (\A g \in Requests :
            handler[g].stage \in {"wallet", "post", "finish"} => paidBack[g] = Mine(g).amount)'
    BY <1>13 DEF PassedOK
  <2>3. ASSUME NEW c \in Creators, refund'[c] # NoRefund, refund'[c].status = "processed"
        PROVE  \E g \in Requests : handler'[g].row = c /\ paidBack'[g] = refund'[c].amount
    BY <1>1, <1>2, <2>3 DEF RefundInv, RefundsArePaidBack, ProcessedIsPaidBack, Moves, Mine
  <2> QED
    BY <2>1, <2>2, <2>3 DEF RefundsArePaidBack, ProcessedIsPaidBack
<1> QED
  BY <1>8, <1>11, <1>12, <1>13, <1>14 DEF RefundInv

-----------------------------------------------------------------------------
(* Every step *)

\* What h reads, computes or writes leaves its refund as it is.
LEMMA LocalKeeps ==
    ASSUME RefundInv, NEW h \in Requests,
           \/ ReadAll(h) \/ FindPayment(h) \/ InsertGatewayRow(h) \/ SaveWallet(h) \/ PostRow(h)
    PROVE  RefundInv'
<1>1. handler[h].row # NoRefund /\ handler[h].row \in Creators
      /\ Mine(h).amount \in Parts /\ Mine(h).amount \in Nat
  <2>1. handler[h].row # NoRefund
    BY DEF ReadAll, FindPayment, InsertGatewayRow, SaveWallet, PostRow, At, RefundInv, InsertedOK
  <2> QED
    BY <2>1, RowOf, RefundAssumption
<1>2. SameRefunds /\ refund' = refund /\ UNCHANGED <<paidBack, givenBack, paymentStatus, spent>>
      /\ faults' \in 0 .. MaxFaults
  BY DEF SameRefunds, RefundInv, RTypeOK, ReadAll, FindPayment, InsertGatewayRow, SaveWallet, PostRow
<1>3. CASE ReadAll(h)
  <2>1. PICK t : t = [handler[h] EXCEPT !.stage = "approve", !.before = balance]
    OBVIOUS
  <2>2. handler' = [handler EXCEPT ![h] = t]
    BY <1>3, <2>1 DEF ReadAll
  <2>3. t \in Handler /\ t.stage = "approve" /\ t.row = handler[h].row
    <3>1. handler[h] \in Handler /\ balance \in Int
      BY DEF RefundInv, RTypeOK
    <3> QED
      BY <2>1, <3>1 DEF Handler
  <2>4. Moves(h) /\ handler'[h].stage = "approve"
    BY <2>2, <2>3 DEF Moves, RefundInv, RTypeOK
  <2> QED
    BY <1>1, <1>2, <1>3, <2>4, MovesKeepRefunds DEF ReadAll, RefundInv, RTypeOK
<1>4. CASE FindPayment(h)
  <2>1. Moves(h) /\ handler'[h].stage \in {"fail", "gateway"}
    <3>1. PICK s \in {"fail", "gateway"} : Goto(h, s)
      BY <1>4 DEF FindPayment
    <3> QED
      BY <3>1, GotoMoves DEF RefundInv, TryStages
  <2> QED
    BY <1>1, <1>2, <1>4, <2>1, MovesKeepRefunds DEF FindPayment, RefundInv, RTypeOK
<1>5. CASE InsertGatewayRow(h)
  <2>1. Moves(h) /\ handler'[h].stage = "gatewaysave"
    BY <1>5, GotoMoves DEF InsertGatewayRow, RefundInv, TryStages
  <2>2. paidBack[h] = Mine(h).amount
    BY <1>5 DEF InsertGatewayRow, At, RefundInv, PassedOK
  <2> QED
    BY <1>1, <1>2, <1>5, <2>1, <2>2, MovesKeepRefunds DEF InsertGatewayRow, RefundInv, RTypeOK
<1>6. CASE SaveWallet(h)
  <2>1. Moves(h) /\ handler'[h].stage = "post"
    BY <1>6, GotoMoves DEF SaveWallet, RefundInv, TryStages
  <2>2. paidBack[h] = Mine(h).amount
    BY <1>6 DEF SaveWallet, At, RefundInv, PassedOK
  <2>3. balance' \in Int
    BY <1>1, <1>6 DEF SaveWallet, RefundInv, RTypeOK, Handler
  <2> QED
    BY <1>1, <1>2, <1>6, <2>1, <2>2, <2>3, MovesKeepRefunds DEF SaveWallet, RefundInv, RTypeOK
<1>7. CASE PostRow(h)
  <2>1. Moves(h) /\ handler'[h].stage = "finish"
    BY <1>7, GotoMoves DEF PostRow, RefundInv, TryStages
  <2>2. paidBack[h] = Mine(h).amount
    BY <1>7 DEF PostRow, At, RefundInv, PassedOK
  <2>3. rows' \subseteq [by: Requests \cup Spenders, amount: Parts]
    BY <1>1, <1>7 DEF PostRow, RefundInv, RTypeOK
  <2> QED
    BY <1>1, <1>2, <1>7, <2>1, <2>2, <2>3, MovesKeepRefunds DEF PostRow, RefundInv, RTypeOK
<1> QED
  BY <1>3, <1>4, <1>5, <1>6, <1>7

LEMMA ApproveKeeps ==
    ASSUME RefundInv, NEW h \in Requests, Approve(h)
    PROVE  RefundInv'
<1>1. handler[h].row # NoRefund
  BY DEF Approve, At, RefundInv, InsertedOK
<1>2. Moves(h) /\ handler'[h].stage = "find"
  BY GotoMoves DEF Approve, RefundInv, TryStages
<1>3. SaveRefund(h, "approved")
  BY DEF Approve
<1>4. SameRefunds /\ refund'[handler[h].row].status = "approved"
      /\ \A c \in Creators \ {handler[h].row} : refund'[c] = refund[c]
  BY <1>1, <1>3, SaveIs
<1> QED
  BY <1>1, <1>2, <1>4, MovesKeepRefunds DEF Approve, RefundInv, RTypeOK

LEMMA FinishKeeps ==
    ASSUME RefundInv, NEW h \in Requests, Finish(h)
    PROVE  RefundInv'
<1>1. PICK s \in {"processed", "failed"} :
          SaveRefund(h, s) /\ At(h, IF s = "processed" THEN "finish" ELSE "fail")
  BY DEF Finish
<1>2. handler[h].row # NoRefund
  BY <1>1 DEF At, RefundInv, InsertedOK
<1>3. Moves(h) /\ handler'[h].stage = "done"
  BY GotoMoves DEF Finish, RefundInv, TryStages
<1>4. SameRefunds /\ refund'[handler[h].row].status = s
      /\ \A c \in Creators \ {handler[h].row} : refund'[c] = refund[c]
  BY <1>1, <1>2, SaveIs
<1>5. s = "processed" => paidBack[h] = Mine(h).amount
  BY <1>1 DEF At, RefundInv, PassedOK
<1> QED
  BY <1>2, <1>3, <1>4, <1>5, MovesKeepRefunds DEF Finish, RefundInv, RTypeOK

\* A request that fails before it has a refund ends, the others go to the catch clause.
LEMMA FaultKeeps ==
    ASSUME RefundInv, NEW h \in Requests, Fault(h)
    PROVE  RefundInv'
<1>1. faults' \in 0 .. MaxFaults
  BY RefundAssumption DEF Fault, RefundInv, RTypeOK
<1>2. PICK s \in {"fail", "done"} :
          Goto(h, s) /\ s = IF handler[h].stage \in TryStages THEN "fail" ELSE "done"
  BY DEF Fault
<1>3. Moves(h) /\ handler'[h].stage = s
  BY <1>2, GotoMoves DEF RefundInv
<1>4. SameRefunds
  BY DEF SameRefunds, Fault, RefundInv, RTypeOK
<1>5. CASE handler[h].row = NoRefund
  <2>1. s = "done"
    BY <1>2, <1>5 DEF RefundInv, InsertedOK, TryStages
  <2>2. handler'[h].row = NoRefund /\ handler' \in [Requests -> Handler]
        /\ \A g \in Requests \ {h} : handler'[g] = handler[g]
    BY <1>3, <1>5 DEF Moves
  <2> QED
    BY <1>1, <1>3, <1>5, <2>1, <2>2, StartsKeep DEF Fault
<1>6. CASE handler[h].row # NoRefund
  BY <1>1, <1>3, <1>4, <1>6, MovesKeepRefunds DEF Fault, RefundInv, RTypeOK
<1> QED
  BY <1>5, <1>6

LEMMA CallKeeps ==
    ASSUME RefundInv, NEW h \in Requests, CallGateway(h)
    PROVE  RefundInv'
<1>1. CASE Mine(h).amount <= Left(Mine(h).pay)
  BY <1>1, GatewayKeeps DEF CallGateway
<1>2. CASE ~(Mine(h).amount <= Left(Mine(h).pay))
  <2>1. Goto(h, "fail") /\ UNCHANGED <<paidBack, givenBack>>
    BY <1>2 DEF CallGateway
  <2>2. Moves(h) /\ handler'[h].stage = "fail"
    BY <2>1, GotoMoves DEF RefundInv
  <2>3. handler[h].row # NoRefund
    BY DEF CallGateway, At, RefundInv, InsertedOK
  <2>4. SameRefunds
    BY DEF SameRefunds, CallGateway, RefundInv, RTypeOK
  <2> QED
    BY <2>1, <2>2, <2>3, <2>4, MovesKeepRefunds DEF CallGateway, RefundInv, RTypeOK
<1> QED
  BY <1>1, <1>2

LEMMA SpendKeeps ==
    ASSUME RefundInv, NEW s \in Spenders, NEW a \in Parts, Spend(s, a)
    PROVE  RefundInv'
<1>1. a \in Nat
  BY RefundAssumption
<1>2. balance' \in Int /\ spent' \subseteq Spenders
      /\ rows' \subseteq [by: Requests \cup Spenders, amount: Parts]
  BY <1>1 DEF Spend, RefundInv, RTypeOK
<1>3. UNCHANGED <<refund, gatewayRow, paidBack, givenBack, paymentStatus, handler, faults>>
  BY DEF Spend
<1> QED
  BY <1>2, <1>3 DEF RefundInv, RTypeOK, GatewayOK, PassedOK, InsertedOK, RefundsArePaidBack,
                    RefundedIsPaidBack, ProcessedIsPaidBack, Mine

LEMMA InitRefund == RInit => RefundInv
<1> SUFFICES ASSUME RInit
             PROVE  RefundInv
  OBVIOUS
<1>1. (CHOOSE p \in Payments : TRUE) \in Payments /\ (CHOOSE a \in Parts : TRUE) \in Parts
  BY RefundAssumption
<1>2. \A h \in Requests : handler[h] \in Handler
  BY <1>1 DEF RInit, Handler
<1>3. RTypeOK
  BY <1>2, RefundAssumption DEF RTypeOK, RInit, TryStages
<1>4. GatewayOK
  <2>1. \A p \in Payments : Paid[p] \in Nat
    BY RefundAssumption
  <2> QED
    BY <2>1 DEF GatewayOK, RInit
<1> QED
  BY <1>3, <1>4 DEF RefundInv, PassedOK, InsertedOK, RefundsArePaidBack, RefundedIsPaidBack,
                    ProcessedIsPaidBack, RInit

LEMMA StepRefund == RefundInv /\ [RNext]_rvars => RefundInv'
<1> SUFFICES ASSUME RefundInv, [RNext]_rvars
             PROVE  RefundInv'
  OBVIOUS
<1>1. CASE UNCHANGED rvars
  BY <1>1 DEF rvars, RefundInv, RTypeOK, GatewayOK, PassedOK, InsertedOK, RefundsArePaidBack,
              RefundedIsPaidBack, ProcessedIsPaidBack, Mine
<1>2. ASSUME NEW h \in Creators, NEW p \in Payments, NEW a \in Parts, CreateRefund(h, p, a)
      PROVE  RefundInv'
  BY <1>2, CreateKeeps
<1>3. ASSUME NEW h \in Creators, InsertRefund(h)
      PROVE  RefundInv'
  BY <1>3, InsertKeeps
<1>4. ASSUME NEW h \in Retriers, NEW c \in Creators, Retry(h, c)
      PROVE  RefundInv'
  BY <1>4, RetryKeeps
<1>5. ASSUME NEW h \in Requests,
             \/ ReadAll(h) \/ FindPayment(h) \/ InsertGatewayRow(h) \/ SaveWallet(h)
             \/ PostRow(h)
      PROVE  RefundInv'
  BY <1>5, LocalKeeps
<1>6. ASSUME NEW h \in Requests, Approve(h)
      PROVE  RefundInv'
  BY <1>6, ApproveKeeps
<1>7. ASSUME NEW h \in Requests, CallGateway(h)
      PROVE  RefundInv'
  BY <1>7, CallKeeps
<1>8. ASSUME NEW h \in Requests, SavePayment(h)
      PROVE  RefundInv'
  BY <1>8, SavePaymentKeeps
<1>9. ASSUME NEW h \in Requests, Finish(h)
      PROVE  RefundInv'
  BY <1>9, FinishKeeps
<1>10. ASSUME NEW h \in Requests, Fault(h)
       PROVE  RefundInv'
  BY <1>10, FaultKeeps
<1>11. ASSUME NEW s \in Spenders, NEW a \in Parts, Spend(s, a)
       PROVE  RefundInv'
  BY <1>11, SpendKeeps
<1> QED
  BY <1>1, <1>2, <1>3, <1>4, <1>5, <1>6, <1>7, <1>8, <1>9, <1>10, <1>11 DEF RNext

\* Values keep their types, and every request past its first step works on a refund of the
\* table (RefundBackofficeService.processRefund).
THEOREM RefundTypesCorrect == RSpec => []RTypeOK
<1>1. RefundInv => RTypeOK
  BY DEF RefundInv
<1> QED
  BY InitRefund, StepRefund, <1>1, PTL DEF RSpec

\* However many refunds and retries overlap, and whichever of their queries fail, a payment
\* is REFUNDED only when the gateway has paid all of it back, and a refund is PROCESSED and a
\* wallet debited only when its amount was paid back (processRefund, refundPayment).
THEOREM OnlyPaidBackIsRefunded == RSpec => []RefundsArePaidBack
<1>1. RefundInv => RefundsArePaidBack
  BY DEF RefundInv
<1> QED
  BY InitRefund, StepRefund, <1>1, PTL DEF RSpec

-----------------------------------------------------------------------------
(* The sum of the amounts of finitely many rows.  An induction is written as  *)
(* an argument about a minimal counterexample, with the library's orderings.  *)

Total(S) == MapThenSumSet(LAMBDA w : w.amount, S)

LEMMA SmallestNumber ==
    ASSUME NEW T \in SUBSET Nat, T # {}
    PROVE  \E m \in T : \A n \in T : m <= n
<1> DEFINE R == OpToRel(<, Nat)
<1>1. IsWellFoundedOn(R, Nat)
  BY NatLessThanWellFounded
<1>2. ASSUME NEW m \in T, NEW n \in T, n < m PROVE <<n, m>> \in R
  BY <1>2 DEF OpToRel
<1> HIDE DEF R
<1>3. PICK m \in T : \A n \in T : ~(<<n, m>> \in R)
  BY <1>1, WFMin
<1>4. ASSUME NEW n \in T PROVE m <= n
  <2>1. m \in Nat /\ n \in Nat /\ ~(n < m)
    BY <1>2, <1>3
  <2> QED
    BY <2>1
<1> QED
  BY <1>4

LEMMA SmallestSubset ==
    ASSUME NEW S, IsFiniteSet(S), NEW T \in SUBSET SUBSET S, T # {}
    PROVE  \E s \in T : \A t \in T : t \subseteq s => t = s
<1> DEFINE R == StrictSubsetOrdering(S)
<1>1. IsWellFoundedOn(R, FiniteSubsetsOf(S))
  BY FS_StrictSubsetOrderingWellFounded
<1>2. T \subseteq FiniteSubsetsOf(S)
  BY FS_FiniteSubsetsOfFinite
<1>3. ASSUME NEW s \in T, NEW t \in T, t \subseteq s, t # s PROVE <<t, s>> \in R
  BY <1>3 DEF StrictSubsetOrdering
<1> HIDE DEF R
<1>4. \E s \in T : \A t \in T : ~(<<t, s>> \in R)
  BY <1>1, <1>2, WFMin
<1> QED
  BY <1>3, <1>4

\* The row that the sum takes next, and its recursion over the sets of D
First(s) == CHOOSE x \in s : TRUE
Sums(g, D) == g = [s \in D |-> IF s = {} THEN 0 ELSE First(s).amount + g[s \ {First(s)}]]

LEMMA FirstIn == ASSUME NEW s, s # {} PROVE First(s) \in s
BY DEF First

LEMMA TotalIs == ASSUME NEW S PROVE Total(S) = (CHOOSE g : Sums(g, SUBSET S))[S]
BY DEF Total, MapThenSumSet, MapThenFoldSet, Sums, First

LEMMA SumsExist ==
    ASSUME NEW S, IsFiniteSet(S)
    PROVE  \E g : Sums(g, SUBSET S)
<1> DEFINE D(n) == {s \in SUBSET S : Cardinality(s) <= n}
           bad == {n \in Nat : ~ \E g : Sums(g, D(n))}
<1>1. \A s \in SUBSET S : IsFiniteSet(s) /\ Cardinality(s) \in Nat /\ Cardinality(s) <= Cardinality(S)
  BY FS_Subset, FS_CardinalityType
<1>2. bad = {}
  <2>1. SUFFICES ASSUME NEW n \in bad, \A m \in bad : n <= m PROVE FALSE
    <3> HIDE DEF bad
    <3>1. bad \in SUBSET Nat
      BY DEF bad
    <3> QED
      BY <3>1, SmallestNumber
  <2>2. CASE n = 0
    <3>1. \A s \in D(0) : s = {}
      BY <1>1, FS_EmptySet
    <3> DEFINE g == [s \in D(0) |-> 0]
    <3>2. Sums(g, D(0))
      BY <3>1 DEF Sums
    <3> QED
      BY <2>2, <3>2
  <2>3. CASE n # 0
    <3>1. n \in Nat /\ n - 1 \in Nat /\ n - 1 < n
      BY <2>3
    <3>2. n - 1 \notin bad
      <4> HIDE DEF bad
      <4> QED
        BY <2>1, <3>1
    <3>3. PICK g : Sums(g, D(n - 1))
      BY <3>1, <3>2
    <3> DEFINE h == [s \in D(n) |-> IF s = {} THEN 0 ELSE First(s).amount + g[s \ {First(s)}]]
    <3>4. ASSUME NEW s \in D(n), s # {}
          PROVE  s \ {First(s)} \in D(n - 1)
      <4>1. First(s) \in s
        BY <3>4, FirstIn
      <4>2. Cardinality(s \ {First(s)}) = Cardinality(s) - 1
        BY <1>1, <4>1, FS_RemoveElement
      <4> QED
        BY <1>1, <4>2
    <3>5. \A s \in D(n - 1) : s \in D(n) /\ h[s] = g[s]
      <4>1. \A s \in D(n - 1) : s \in D(n)
        BY <1>1, <2>1
      <4>2. \A s \in D(n - 1) : g[s] = IF s = {} THEN 0 ELSE First(s).amount + g[s \ {First(s)}]
        BY <3>3 DEF Sums
      <4> QED
        BY <4>1, <4>2
    <3>6. h = [s \in D(n) |-> IF s = {} THEN 0 ELSE First(s).amount + h[s \ {First(s)}]]
      BY <3>4, <3>5
    <3>7. Sums(h, D(n))
      BY <3>6 DEF Sums
    <3> QED
      BY <3>7
  <2> QED
    BY <2>2, <2>3
<1>3. Cardinality(S) \in Nat /\ D(Cardinality(S)) = SUBSET S
  BY <1>1, FS_CardinalityType
<1> QED
  BY <1>2, <1>3

LEMMA TotalSums ==
    ASSUME NEW S, IsFiniteSet(S)
    PROVE  \E g : Sums(g, SUBSET S) /\ Total(S) = g[S]
BY SumsExist, TotalIs

LEMMA TotalEmpty == Total({}) = 0
<1>1. PICK g : Sums(g, SUBSET {}) /\ Total({}) = g[{}]
  BY TotalSums, FS_EmptySet
<1>2. {} \in SUBSET {}
  OBVIOUS
<1> QED
  BY <1>1, <1>2 DEF Sums

\* The sums over a set and over a larger one agree.
LEMMA SumsMatch ==
    ASSUME NEW S, IsFiniteSet(S), NEW T, S \in SUBSET T,
           NEW g, Sums(g, SUBSET T), NEW h, Sums(h, SUBSET S)
    PROVE  g[S] = h[S]
<1> DEFINE bad == {s \in SUBSET S : g[s] # h[s]}
<1>1. bad = {}
  <2> SUFFICES ASSUME bad # {} PROVE FALSE
    OBVIOUS
  <2>1. PICK s \in bad : \A t \in bad : t \subseteq s => t = s
    <3>1. bad \in SUBSET SUBSET S
      OBVIOUS
    <3> HIDE DEF bad
    <3> QED
      BY <3>1, SmallestSubset
  <2>2. s \in SUBSET S /\ s \in SUBSET T
    OBVIOUS
  <2>3. /\ g[s] = IF s = {} THEN 0 ELSE First(s).amount + g[s \ {First(s)}]
        /\ h[s] = IF s = {} THEN 0 ELSE First(s).amount + h[s \ {First(s)}]
    BY <2>2 DEF Sums
  <2>4. CASE s = {}
    BY <2>3, <2>4
  <2>5. CASE s # {}
    <3>1. First(s) \in s
      BY <2>5, FirstIn
    <3>2. s \ {First(s)} \notin bad
      BY <2>1, <3>1
    <3>3. g[s \ {First(s)}] = h[s \ {First(s)}]
      BY <3>1, <3>2
    <3> QED
      BY <2>3, <2>5, <3>3
  <2> QED
    BY <2>4, <2>5
<1> QED
  BY <1>1

LEMMA SumsInt ==
    ASSUME NEW S, IsFiniteSet(S), NEW g, Sums(g, SUBSET S), \A x \in S : x.amount \in Int
    PROVE  \A s \in SUBSET S : g[s] \in Int
<1> DEFINE bad == {s \in SUBSET S : g[s] \notin Int}
<1>1. bad = {}
  <2> SUFFICES ASSUME bad # {} PROVE FALSE
    OBVIOUS
  <2>1. PICK s \in bad : \A t \in bad : t \subseteq s => t = s
    <3>1. bad \in SUBSET SUBSET S
      OBVIOUS
    <3> HIDE DEF bad
    <3> QED
      BY <3>1, SmallestSubset
  <2>2. g[s] = IF s = {} THEN 0 ELSE First(s).amount + g[s \ {First(s)}]
    BY DEF Sums
  <2>3. CASE s # {}
    <3>1. First(s) \in s
      BY <2>3, FirstIn
    <3>2. s \ {First(s)} \notin bad
      BY <2>1, <3>1
    <3>3. g[s \ {First(s)}] \in Int /\ First(s).amount \in Int
      BY <3>1, <3>2
    <3> QED
      BY <2>2, <2>3, <3>3
  <2> QED
    BY <2>2, <2>3
<1> QED
  BY <1>1

\* The order in which rows are taken does not matter.
LEMMA SumsInAnyOrder ==
    ASSUME NEW S, IsFiniteSet(S), NEW g, Sums(g, SUBSET S), \A x \in S : x.amount \in Int
    PROVE  \A s \in SUBSET S : \A x \in s : g[s] = x.amount + g[s \ {x}]
<1> DEFINE bad == {s \in SUBSET S : ~ \A x \in s : g[s] = x.amount + g[s \ {x}]}
<1>1. bad = {}
  <2> SUFFICES ASSUME bad # {} PROVE FALSE
    OBVIOUS
  <2>1. PICK s \in bad : \A t \in bad : t \subseteq s => t = s
    <3>1. bad \in SUBSET SUBSET S
      OBVIOUS
    <3> HIDE DEF bad
    <3> QED
      BY <3>1, SmallestSubset
  <2>2. PICK x \in s : g[s] # x.amount + g[s \ {x}]
    OBVIOUS
  <2> DEFINE y == First(s)
             rest == g[(s \ {x}) \ {y}]
  <2>3. y \in s
    BY <2>2, FirstIn
  <2>4. g[s] = y.amount + g[s \ {y}]
    BY <2>2 DEF Sums
  <2>5. x # y
    BY <2>2, <2>4
  <2> HIDE DEF y
  <2>6. s \ {x} \notin bad /\ s \ {y} \notin bad
    BY <2>1, <2>2, <2>3
  <2>7. g[s \ {x}] = y.amount + rest
    BY <2>2, <2>3, <2>5, <2>6
  <2>8. g[s \ {y}] = x.amount + rest
    <3>1. (s \ {x}) \ {y} = (s \ {y}) \ {x}
      OBVIOUS
    <3> QED
      BY <2>2, <2>3, <2>5, <2>6, <3>1
  <2>9. x.amount \in Int /\ y.amount \in Int /\ rest \in Int
    <3>1. (s \ {x}) \ {y} \in SUBSET S
      BY <2>1
    <3>2. rest \in Int
      BY <3>1, SumsInt
    <3> QED
      BY <2>1, <2>2, <2>3, <3>2
  <2>10. x.amount + (y.amount + rest) = y.amount + (x.amount + rest)
    <3> HIDE DEF rest
    <3>1. \A i, j, k \in Int : i + (j + k) = j + (i + k)
      OBVIOUS
    <3> QED
      BY <2>9, <3>1
  <2> QED
    BY <2>2, <2>4, <2>7, <2>8, <2>10
<1> QED
  BY <1>1

LEMMA TotalInt ==
    ASSUME NEW S, IsFiniteSet(S), \A x \in S : x.amount \in Int
    PROVE  Total(S) \in Int
BY TotalSums, SumsInt

\* One more row adds its amount.
LEMMA TotalAdds ==
    ASSUME NEW S, IsFiniteSet(S), NEW x, x \notin S, x.amount \in Int, \A y \in S : y.amount \in Int
    PROVE  Total(S \cup {x}) = x.amount + Total(S)
<1> DEFINE T == S \cup {x}
<1>1. IsFiniteSet(T)
  BY FS_AddElement
<1>2. PICK g : Sums(g, SUBSET T) /\ Total(T) = g[T]
  BY <1>1, TotalSums
<1>3. PICK h : Sums(h, SUBSET S) /\ Total(S) = h[S]
  BY TotalSums
<1>4. (\A y \in T : y.amount \in Int) /\ S \in SUBSET T /\ T \in SUBSET T /\ x \in T /\ T \ {x} = S
  OBVIOUS
<1> HIDE DEF T
<1>5. g[T] = x.amount + g[T \ {x}]
  BY <1>1, <1>2, <1>4, SumsInAnyOrder
<1>6. g[S] = h[S]
  BY <1>2, <1>3, <1>4, SumsMatch
<1>7. Total(T) = x.amount + Total(S)
  BY <1>2, <1>3, <1>4, <1>5, <1>6
<1> QED
  BY <1>7 DEF T

-----------------------------------------------------------------------------
(* Requests in turn *)

OneAtWork == \A g, h \in Requests : Running(g) /\ Running(h) => g = h

\* Who has posted a row is about to end, and the user spends once in a call.
Past == {"finish", "fail", "done"}

RowsOK ==
    /\ IsFiniteSet(rows)
    /\ \A w \in rows : /\ w.by \in Requests => handler[w.by].stage \in Past
                       /\ w.by \in Spenders => w.by \in spent

\* Whom the gateway has paid back has its row of refunds, by which createRefund finds it.
PaidHasRow == \A g \in Requests : paidBack[g] > 0 => At(g, "gatewayrow") \/ g \in gatewayRow

\* Nobody but h was paid back of p.
Free(h, p) == \A g \in Requests \ {h} : paidBack[g] > 0 => Mine(g).pay # p

\* What createRefund has found out is still so until the gateway is called.
Calling == {"read", "approve", "find", "gateway"}

Claims(h) ==
    h \in Creators =>
        /\ handler[h].stage = "insert" => Free(h, handler[h].pay)
        /\ handler[h].stage \in Calling => Free(h, Mine(h).pay)

Explained == balance = Opening - Total(rows)

\* What processRefund has read of the balance is still so until it is saved.
Holding == {"approve", "find", "gateway", "gatewayrow", "gatewaysave", "save", "wallet"}

Trail(h) ==
    /\ IF At(h, "post") THEN balance = Opening - Total(rows) - Mine(h).amount ELSE Explained
    /\ handler[h].stage \in Holding => handler[h].before = balance

TurnInv ==
    /\ RefundInv /\ RowsOK
    /\ Undisturbed =>
           /\ OneAtWork /\ OneRefund /\ PaidHasRow
           /\ \A h \in Requests : Running(h) => Claims(h) /\ Trail(h)
           /\ Quiet => Explained

TurnStep ==
    /\ TurnInv /\ Turns /\ RefundInv'
    /\ faults <= faults'

\* Only request h does something.
OnlyMoves(h) == \A g \in Requests \ {h} : handler'[g] = handler[g]

LEMMA TurnBefore ==
    ASSUME TurnStep, Undisturbed'
    PROVE  /\ Undisturbed /\ OneAtWork /\ OneAtWork' /\ OneRefund /\ PaidHasRow
           /\ spent' # spent => Quiet
           /\ Quiet => Explained
           /\ \A h \in Requests : Running(h) => Claims(h) /\ Trail(h)
<1> DEFINE b == \E g, h \in Requests : g # h /\ Running(g)' /\ Running(h)'
           c == spent' # spent /\ ~Quiet
<1>1. overlapped' = (overlapped \/ b \/ c)
  BY DEF TurnStep, Turns
<1>2. ~overlapped /\ ~b /\ ~c
  <2> HIDE DEF b, c
  <2>1. ~(overlapped \/ b \/ c)
    BY <1>1, Zenon DEF Undisturbed
  <2> QED
    BY <2>1, Zenon
<1>3. OneAtWork' /\ (spent' # spent => Quiet)
  BY <1>2 DEF OneAtWork
<1>4. faults = 0
  <2>1. faults \in Nat /\ faults' = 0
    BY RefundAssumption DEF TurnStep, TurnInv, RefundInv, RTypeOK, Undisturbed
  <2> QED
    BY <2>1 DEF TurnStep
<1>5. Undisturbed
  BY <1>2, <1>4 DEF Undisturbed
<1> QED
  BY <1>3, <1>5 DEF TurnStep, TurnInv

LEMMA TurnAlone ==
    ASSUME TurnStep, NEW h \in Requests, OnlyMoves(h), Running(h) \/ Running(h)', Undisturbed'
    PROVE  \A g \in Requests \ {h} : ~Running(g) /\ ~Running(g)'
<1>1. OneAtWork /\ OneAtWork'
  BY TurnBefore
<1>2. \A g \in Requests \ {h} : Running(g)' = Running(g)
  BY DEF OnlyMoves, Running
<1> QED
  BY <1>1, <1>2 DEF OneAtWork

\* What has to be shown of a step of request h
LEMMA TurnMoves ==
    ASSUME TurnStep, NEW h \in Requests, OnlyMoves(h), Running(h) \/ Running(h)',
           handler'[h].stage # "idle", RowsOK',
           Undisturbed' => OneRefund' /\ PaidHasRow' /\ Claims(h)' /\ Trail(h)'
    PROVE  TurnInv'
<1>1. ASSUME Undisturbed'
      PROVE  /\ OneAtWork' /\ OneRefund' /\ PaidHasRow'
             /\ \A g \in Requests : Running(g)' => Claims(g)' /\ Trail(g)'
             /\ Quiet' => Explained'
  <2>1. OneAtWork' /\ \A g \in Requests \ {h} : ~Running(g)'
    BY <1>1, TurnBefore, TurnAlone
  <2>2. Quiet' => handler'[h].stage = "done"
    BY DEF Quiet, Running
  <2>3. handler'[h].stage = "done" => Explained'
    BY <1>1 DEF Trail, At
  <2> QED
    BY <1>1, <2>1, <2>2, <2>3
<1> QED
  BY <1>1 DEF TurnInv, TurnStep

LEMMA RowsStay ==
    ASSUME RowsOK, NEW h \in Requests, OnlyMoves(h), UNCHANGED <<rows, spent>>,
           handler[h].stage \in Past => handler'[h].stage \in Past
    PROVE  RowsOK'
BY DEF RowsOK, OnlyMoves

LEMMA GotoIs ==
    ASSUME RefundInv, NEW h \in Requests, NEW s, Goto(h, s)
    PROVE  /\ OnlyMoves(h) /\ handler'[h].stage = s /\ handler'[h].before = handler[h].before
           /\ handler'[h].row = handler[h].row
<1>1. PICK t : t = [handler[h] EXCEPT !.stage = s]
  OBVIOUS
<1>2. handler[h] \in Handler
  BY DEF RefundInv, RTypeOK
<1>3. t.stage = s /\ t.before = handler[h].before /\ t.row = handler[h].row
  BY <1>1, <1>2 DEF Handler
<1>4. handler' = [handler EXCEPT ![h] = t]
  BY <1>1 DEF Goto
<1> QED
  BY <1>3, <1>4 DEF OnlyMoves, RefundInv, RTypeOK

\* A request that ends at once
LEMMA TurnRefuses ==
    ASSUME TurnStep, NEW h \in Requests, OnlyMoves(h), handler[h].stage = "idle", handler'[h].stage = "done",
           UNCHANGED <<balance, rows, refund, gatewayRow, paidBack, spent>>,
           handler'[h].row = handler[h].row
    PROVE  TurnInv'
<1>1. \A g \in Requests : Running(g)' = Running(g) /\ Mine(g)' = Mine(g) /\ \A s : s # "idle" /\ s # "done" => At(g, s)' = At(g, s)
  BY DEF OnlyMoves, Running, Mine, At
<1>2. RowsOK'
  BY RowsStay DEF Past, TurnStep, TurnInv
<1>3. ASSUME Undisturbed'
      PROVE  /\ OneAtWork' /\ OneRefund' /\ PaidHasRow'
             /\ \A g \in Requests : Running(g)' => Claims(g)' /\ Trail(g)'
             /\ Quiet' => Explained'
  <2>1. /\ OneAtWork' /\ OneRefund /\ PaidHasRow /\ (Quiet => Explained)
        /\ \A g \in Requests : Running(g) => Claims(g) /\ Trail(g)
    BY <1>3, TurnBefore
  <2>2. OneRefund'
    BY <1>1, <2>1 DEF OneRefund, Requests
  <2>3. PaidHasRow'
    BY <1>1, <2>1 DEF PaidHasRow
  <2>4. Explained' = Explained /\ Quiet' = Quiet
    BY <1>1 DEF Explained, Quiet
  <2>5. ASSUME NEW g \in Requests, Running(g)'
        PROVE  Claims(g)' /\ Trail(g)'
    <3>1. g # h /\ Claims(g) /\ Trail(g) /\ handler'[g] = handler[g]
      BY <1>1, <2>1, <2>5 DEF Running, OnlyMoves
    <3>2. Claims(g)'
      BY <1>1, <3>1 DEF Claims, Free
    <3>3. Trail(g)'
      BY <1>1, <2>4, <3>1 DEF Trail
    <3> QED
      BY <3>2, <3>3
  <2> QED
    BY <2>1, <2>2, <2>3, <2>4, <2>5
<1> QED
  BY <1>2, <1>3 DEF TurnInv, TurnStep

\* Who was paid back has a refund.
LEMMA PaidIs ==
    ASSUME RefundInv, NEW g \in Requests, paidBack[g] > 0
    PROVE  handler[g].row \in Creators /\ Mine(g) \in Row /\ handler[g].stage \notin {"idle", "insert"}
BY RowOf DEF RefundInv, GatewayOK, InsertedOK

\* A creator takes its claim: none was paid back of the payment.
LEMMA TurnCreates ==
    ASSUME TurnStep, NEW h \in Creators, NEW p \in Payments, NEW a \in Parts, CreateRefund(h, p, a)
    PROVE  TurnInv'
<1>0. h \in Requests /\ RefundInv
  BY DEF Requests, TurnStep, TurnInv
<1>1. PICK stage : stage = IF a > Paid[p] \/ Refunded(p) THEN "done" ELSE "insert"
  OBVIOUS
<1>2. PICK t : t = [handler[h] EXCEPT !.pay = p, !.amount = a, !.stage = stage]
  OBVIOUS
<1>3. handler' = [handler EXCEPT ![h] = t]
  BY <1>1, <1>2 DEF CreateRefund
<1>4. t.stage = stage /\ t.pay = p /\ t.row = handler[h].row
  <2>1. handler[h] \in Handler
    BY <1>0 DEF RefundInv, RTypeOK
  <2> QED
    BY <1>2, <2>1 DEF Handler
<1>5. OnlyMoves(h) /\ handler'[h] = t
  BY <1>0, <1>3 DEF OnlyMoves, RefundInv, RTypeOK
<1>6. /\ handler[h].stage = "idle"
      /\ UNCHANGED <<balance, rows, refund, gatewayRow, paidBack, spent>>
  BY DEF CreateRefund, At
<1>7. CASE stage = "done"
  BY <1>0, <1>4, <1>5, <1>6, <1>7, TurnRefuses
<1>8. CASE stage = "insert"
  <2>1. Running(h)' /\ ~Running(h) /\ ~Refunded(p)
    BY <1>1, <1>4, <1>5, <1>6, <1>8 DEF Running
  <2>2. RowsOK'
    BY <1>0, <1>5, <1>6, RowsStay DEF Past, TurnStep, TurnInv
  <2>3. ASSUME Undisturbed' PROVE OneRefund' /\ PaidHasRow' /\ Claims(h)' /\ Trail(h)'
    <3>1. OneRefund /\ PaidHasRow /\ (Quiet => Explained) /\ \A g \in Requests \ {h} : ~Running(g)
      BY <1>0, <1>5, <2>1, <2>3, TurnBefore, TurnAlone
    <3>2. Explained
      BY <2>1, <3>1 DEF Quiet
    <3>3. \A g \in Requests : Mine(g)' = Mine(g) /\ At(g, "gatewayrow")' = At(g, "gatewayrow")
      BY <1>4, <1>5, <1>6, <1>8 DEF OnlyMoves, Mine, At
    <3>4. OneRefund' /\ PaidHasRow'
      BY <1>6, <3>1, <3>3 DEF OneRefund, PaidHasRow, Requests
    <3>5. Free(h, p)
      BY <2>1, <3>1 DEF Free, PaidHasRow, Refunded, At, Running
    <3>6. Claims(h)'
      BY <1>4, <1>5, <1>6, <1>8, <3>3, <3>5 DEF Claims, Free, Calling
    <3>7. Trail(h)'
      BY <1>4, <1>5, <1>6, <1>8, <3>2 DEF Trail, At, Holding, Explained
    <3> QED
      BY <3>4, <3>6, <3>7
  <2> QED
    BY <1>0, <1>4, <1>5, <1>8, <2>1, <2>2, <2>3, TurnMoves
<1> QED
  BY <1>1, <1>7, <1>8

\* The claim of the request becomes that of its refund.
LEMMA TurnInserts ==
    ASSUME TurnStep, NEW h \in Creators, InsertRefund(h)
    PROVE  TurnInv'
<1>0. h \in Requests /\ RefundInv
  BY DEF Requests, TurnStep, TurnInv
<1>1. PICK t : t = [handler[h] EXCEPT !.stage = "read", !.row = h]
  OBVIOUS
<1>2. PICK x : x = [pay |-> handler[h].pay, amount |-> handler[h].amount, status |-> "approved"]
  OBVIOUS
<1>3. handler' = [handler EXCEPT ![h] = t] /\ refund' = [refund EXCEPT ![h] = x]
  BY <1>1, <1>2 DEF InsertRefund
<1>4. t.stage = "read" /\ t.row = h /\ x.pay = handler[h].pay
  <2>1. handler[h] \in Handler
    BY <1>0 DEF RefundInv, RTypeOK
  <2> QED
    BY <1>1, <1>2, <2>1 DEF Handler
<1>5. /\ OnlyMoves(h) /\ handler'[h] = t /\ refund'[h] = x
      /\ \A c \in Creators \ {h} : refund'[c] = refund[c]
  BY <1>0, <1>3 DEF OnlyMoves, RefundInv, RTypeOK
<1>6. /\ handler[h].stage = "insert" /\ Running(h)
      /\ UNCHANGED <<balance, rows, gatewayRow, paidBack, spent>>
  BY DEF InsertRefund, At, Running
<1>7. RowsOK'
  BY <1>0, <1>5, <1>6, RowsStay DEF Past, TurnStep, TurnInv
<1>8. ASSUME NEW g \in Requests, paidBack[g] > 0
      PROVE  g # h /\ Mine(g)' = Mine(g)
  <2>1. handler[g].row \in Creators /\ Mine(g) \in Row /\ g # h
    BY <1>0, <1>6, <1>8, PaidIs
  <2>2. refund[h] = NoRefund
    BY <1>0, <1>6 DEF RefundInv, InsertedOK
  <2>3. handler[g].row # h
    BY <2>1, <2>2, RefundAssumption DEF Mine
  <2> QED
    BY <1>5, <2>1, <2>3 DEF Mine, OnlyMoves
<1>9. ASSUME Undisturbed' PROVE OneRefund' /\ PaidHasRow' /\ Claims(h)' /\ Trail(h)'
  <2>1. OneRefund /\ PaidHasRow /\ Claims(h) /\ Trail(h)
    BY <1>0, <1>6, <1>9, TurnBefore
  <2>2. OneRefund'
    BY <1>6, <1>8, <2>1 DEF OneRefund, Requests
  <2>3. PaidHasRow'
    BY <1>5, <1>6, <1>8, <2>1 DEF PaidHasRow, OnlyMoves, At
  <2>4. Claims(h)'
    BY <1>4, <1>5, <1>6, <1>8, <2>1 DEF Claims, Free, Mine
  <2>5. Trail(h)'
    BY <1>4, <1>5, <1>6, <2>1 DEF Trail, At, Holding, Explained
  <2> QED
    BY <2>2, <2>3, <2>4, <2>5
<1> QED
  BY <1>0, <1>4, <1>5, <1>6, <1>7, <1>9, TurnMoves

LEMMA TurnRetries ==
    ASSUME TurnStep, NEW h \in Retriers, NEW c \in Creators, Retry(h, c)
    PROVE  TurnInv'
<1>0. h \in Requests /\ h \notin Creators /\ RefundInv
  BY RefundAssumption DEF Requests, TurnStep, TurnInv
<1>1. PICK t : t = [handler[h] EXCEPT !.stage = "read", !.row = c]
  OBVIOUS
<1>2. handler' = [handler EXCEPT ![h] = t]
  BY <1>1 DEF Retry
<1>3. t.stage = "read"
  <2>1. handler[h] \in Handler
    BY <1>0 DEF RefundInv, RTypeOK
  <2> QED
    BY <1>1, <2>1 DEF Handler
<1>4. OnlyMoves(h) /\ handler'[h] = t
  BY <1>0, <1>2 DEF OnlyMoves, RefundInv, RTypeOK
<1>5. /\ handler[h].stage = "idle" /\ UNCHANGED <<balance, rows, refund, gatewayRow, paidBack, spent>>
  BY DEF Retry, At
<1>6. Running(h)' /\ ~Running(h)
  BY <1>3, <1>4, <1>5 DEF Running
<1>7. RowsOK'
  BY <1>0, <1>4, <1>5, RowsStay DEF Past, TurnStep, TurnInv
<1>8. ASSUME Undisturbed' PROVE OneRefund' /\ PaidHasRow' /\ Claims(h)' /\ Trail(h)'
  <2>1. OneRefund /\ PaidHasRow /\ (Quiet => Explained) /\ \A g \in Requests \ {h} : ~Running(g)
    BY <1>0, <1>4, <1>6, <1>8, TurnBefore, TurnAlone
  <2>2. Explained
    BY <1>6, <2>1 DEF Quiet
  <2>3. \A g \in Requests \ {h} : Mine(g)' = Mine(g) /\ At(g, "gatewayrow")' = At(g, "gatewayrow")
    BY <1>4, <1>5 DEF OnlyMoves, Mine, At
  <2>4. OneRefund'
    BY <1>0, <1>5, <2>1, <2>3 DEF OneRefund, Requests
  <2>5. PaidHasRow'
    BY <1>0, <1>5, <2>1, <2>3, PaidIs DEF PaidHasRow, At
  <2>6. Claims(h)'
    BY <1>0 DEF Claims
  <2>7. Trail(h)'
    BY <1>3, <1>4, <1>5, <2>2 DEF Trail, At, Holding, Explained
  <2> QED
    BY <2>4, <2>5, <2>6, <2>7
<1> QED
  BY <1>0, <1>3, <1>4, <1>6, <1>7, <1>8, TurnMoves

\* A request that goes on, without a call to the gateway
LEMMA TurnGoes ==
    ASSUME TurnStep, NEW h \in Requests, Running(h), OnlyMoves(h), SameRefunds,
           handler[h].row # NoRefund, handler'[h].row = handler[h].row, paidBack' = paidBack,
           gatewayRow \subseteq gatewayRow', At(h, "gatewayrow") => h \in gatewayRow',
           handler'[h].stage \notin {"idle", "insert"},
           handler'[h].stage \in Calling => handler[h].stage \in Calling,
           RowsOK', Undisturbed' => Trail(h)'
    PROVE  TurnInv'
<1>1. \A g \in Requests : handler[g].row # NoRefund =>
          Mine(g)'.pay = Mine(g).pay
  <2> SUFFICES ASSUME NEW g \in Requests, handler[g].row # NoRefund
               PROVE  Mine(g)'.pay = Mine(g).pay
    OBVIOUS
  <2>1. handler[g].row \in Creators /\ Mine(g) # NoRefund
    BY RowOf, RefundAssumption DEF TurnStep, TurnInv
  <2>2. handler'[g].row = handler[g].row
    BY DEF OnlyMoves
  <2> QED
    BY <2>1, <2>2 DEF SameRefunds, Mine
<1>2. \A g \in Requests : paidBack[g] > 0 => Mine(g)'.pay = Mine(g).pay
  BY <1>1 DEF TurnStep, TurnInv, RefundInv, GatewayOK
<1>3. ASSUME Undisturbed' PROVE OneRefund' /\ PaidHasRow' /\ Claims(h)'
  <2>1. OneRefund /\ PaidHasRow /\ Claims(h)
    BY <1>3, TurnBefore
  <2>2. OneRefund'
    BY <1>2, <2>1 DEF OneRefund, Requests
  <2>3. PaidHasRow'
    BY <2>1 DEF PaidHasRow, OnlyMoves, At
  <2>4. Claims(h)'
    BY <1>1, <1>2, <2>1 DEF Claims, Free
  <2> QED
    BY <2>2, <2>3, <2>4
<1> QED
  BY <1>3, TurnMoves

\* The refund that a request past its first step works on
LEMMA WorksOn ==
    ASSUME TurnStep, NEW h \in Requests, handler[h].stage \notin {"idle", "insert", "done"}
    PROVE  /\ RefundInv /\ RowsOK /\ Running(h) /\ handler[h].row # NoRefund
           /\ handler[h].row \in Creators /\ Mine(h) \in Row /\ Mine(h).amount \in Parts
<1>1. RefundInv /\ RowsOK /\ handler[h].row # NoRefund
  BY DEF TurnStep, TurnInv, RefundInv, InsertedOK
<1> QED
  BY <1>1, RowOf DEF Running

LEMMA SameMeansSame == ASSUME RefundInv, refund' = refund PROVE SameRefunds
BY DEF RefundInv, RTypeOK, SameRefunds

LEMMA RowsAddUp ==
    ASSUME RefundInv, RowsOK
    PROVE  Total(rows) \in Int /\ \A w \in rows : w.amount \in Int
<1>1. rows \subseteq [by: Requests \cup Spenders, amount: Parts] /\ Parts \subseteq Int
  BY RefundAssumption DEF RefundInv, RTypeOK
<1>2. \A w \in rows : w.amount \in Int
  BY <1>1
<1> QED
  BY <1>2, TotalInt DEF RowsOK

\* The balance is read when no step on it is left half done.
LEMMA TurnReads ==
    ASSUME TurnStep, NEW h \in Requests, ReadAll(h)
    PROVE  TurnInv'
<1>1. PICK t : t = [handler[h] EXCEPT !.stage = "approve", !.before = balance]
  OBVIOUS
<1>2. handler' = [handler EXCEPT ![h] = t]
  BY <1>1 DEF ReadAll
<1>3. handler[h].stage = "read" /\ UNCHANGED <<balance, rows, refund, gatewayRow, paidBack, spent>>
  BY DEF ReadAll, At
<1>4. RefundInv /\ RowsOK /\ Running(h) /\ handler[h].row # NoRefund
  BY <1>3, WorksOn
<1>5. t.stage = "approve" /\ t.before = balance /\ t.row = handler[h].row
  <2>1. handler[h] \in Handler
    BY <1>4 DEF RefundInv, RTypeOK
  <2> QED
    BY <1>1, <2>1 DEF Handler
<1>6. OnlyMoves(h) /\ handler'[h] = t
  BY <1>2, <1>4 DEF OnlyMoves, RefundInv, RTypeOK
<1>7. RowsOK'
  BY <1>3, <1>4, <1>6, RowsStay DEF Past
<1>8. ASSUME Undisturbed' PROVE Trail(h)'
  <2>1. Trail(h)
    BY <1>4, <1>8, TurnBefore
  <2> QED
    BY <1>3, <1>5, <1>6, <2>1 DEF Trail, At, Explained
<1>9. SameRefunds /\ ~At(h, "gatewayrow")
  BY <1>3, <1>4, SameMeansSame DEF At
<1> QED
  BY <1>3, <1>4, <1>5, <1>6, <1>7, <1>8, <1>9, TurnGoes DEF Calling

\* A step from one stage to another that touches neither the wallet nor the gateway
LEMMA TurnPasses ==
    ASSUME TurnStep, NEW h \in Requests, NEW s, Goto(h, s), SameRefunds,
           handler[h].stage \notin {"idle", "insert", "post", "done"},
           s \notin {"idle", "insert", "post", "read"},
           s \in Calling => handler[h].stage \in Calling,
           s \in Holding => handler[h].stage \in Holding,
           handler[h].stage \in Past => s \in Past,
           gatewayRow \subseteq gatewayRow', At(h, "gatewayrow") => h \in gatewayRow',
           UNCHANGED <<balance, rows, paidBack, spent>>
    PROVE  TurnInv'
<1>1. RefundInv /\ RowsOK /\ Running(h) /\ handler[h].row # NoRefund
  BY WorksOn
<1>2. /\ OnlyMoves(h) /\ handler'[h].stage = s /\ handler'[h].before = handler[h].before
      /\ handler'[h].row = handler[h].row
  BY <1>1, GotoIs
<1>3. RowsOK'
  BY <1>1, <1>2, RowsStay
<1>4. ASSUME Undisturbed' PROVE Trail(h)'
  <2>1. Trail(h)
    BY <1>1, <1>4, TurnBefore
  <2> QED
    BY <1>2, <2>1 DEF Trail, At, Explained
<1> QED
  BY <1>1, <1>2, <1>3, <1>4, TurnGoes

LEMMA TurnApproves ==
    ASSUME TurnStep, NEW h \in Requests, Approve(h)
    PROVE  TurnInv'
<1>1. handler[h].stage = "approve"
  BY DEF Approve, At
<1>2. RefundInv /\ handler[h].row # NoRefund
  BY <1>1, WorksOn
<1>3. SameRefunds
  BY <1>2, SaveIs DEF Approve
<1>4. Goto(h, "find") /\ UNCHANGED <<balance, rows, gatewayRow, paidBack, spent>>
  BY DEF Approve
<1> QED
  BY <1>1, <1>3, <1>4, TurnPasses DEF Calling, Holding, Past, At

LEMMA TurnFinds ==
    ASSUME TurnStep, NEW h \in Requests, FindPayment(h)
    PROVE  TurnInv'
<1>1. handler[h].stage = "find" /\ UNCHANGED <<balance, rows, refund, gatewayRow, paidBack, spent>>
  BY DEF FindPayment, At
<1>2. SameRefunds
  BY <1>1, WorksOn, SameMeansSame
<1>3. PICK s \in {"fail", "gateway"} : Goto(h, s)
  BY DEF FindPayment
<1> QED
  BY <1>1, <1>2, <1>3, TurnPasses DEF Calling, Holding, Past, At

LEMMA TurnRecords ==
    ASSUME TurnStep, NEW h \in Requests, InsertGatewayRow(h)
    PROVE  TurnInv'
<1>1. /\ handler[h].stage = "gatewayrow" /\ gatewayRow' = gatewayRow \cup {h}
      /\ Goto(h, "gatewaysave") /\ UNCHANGED <<balance, rows, refund, paidBack, spent>>
  BY DEF InsertGatewayRow, At
<1>2. SameRefunds
  BY <1>1, WorksOn, SameMeansSame
<1> QED
  BY <1>1, <1>2, TurnPasses DEF Calling, Holding, Past, At

LEMMA TurnSavesPayment ==
    ASSUME TurnStep, NEW h \in Requests, SavePayment(h)
    PROVE  TurnInv'
<1>1. PICK next \in {<<"gatewaysave", "save">>, <<"save", "wallet">>} :
          /\ At(h, next[1]) /\ Goto(h, next[2])
          /\ UNCHANGED <<balance, rows, refund, gatewayRow, paidBack, spent>>
  BY DEF SavePayment
<1>2. handler[h].stage \in {"gatewaysave", "save"} /\ ~At(h, "gatewayrow")
  BY <1>1 DEF At
<1>3. SameRefunds
  BY <1>1, <1>2, WorksOn, SameMeansSame
<1>4. next[2] \in {"save", "wallet"}
  BY <1>1
<1> QED
  BY <1>1, <1>2, <1>3, <1>4, TurnPasses DEF Calling, Holding, Past

LEMMA TurnFinishes ==
    ASSUME TurnStep, NEW h \in Requests, Finish(h)
    PROVE  TurnInv'
<1>1. handler[h].stage \in {"finish", "fail"}
  BY DEF Finish, At
<1>2. RefundInv /\ handler[h].row # NoRefund
  BY <1>1, WorksOn
<1>3. PICK status \in {"approved", "processed", "failed"} : SaveRefund(h, status)
  BY DEF Finish
<1>4. SameRefunds
  BY <1>2, <1>3, SaveIs
<1>5. Goto(h, "done") /\ UNCHANGED <<balance, rows, gatewayRow, paidBack, spent>>
  BY DEF Finish
<1> QED
  BY <1>1, <1>4, <1>5, TurnPasses DEF Calling, Holding, Past, At

\* The balance is one row ahead
LEMMA TurnDebits ==
    ASSUME TurnStep, NEW h \in Requests, SaveWallet(h)
    PROVE  TurnInv'
<1>1. /\ handler[h].stage = "wallet" /\ balance' = handler[h].before - Mine(h).amount
      /\ Goto(h, "post") /\ UNCHANGED <<rows, refund, gatewayRow, paidBack, spent>>
  BY DEF SaveWallet, At
<1>2. /\ RefundInv /\ RowsOK /\ Running(h) /\ handler[h].row # NoRefund /\ SameRefunds
      /\ ~At(h, "gatewayrow")
  BY <1>1, WorksOn, SameMeansSame DEF At
<1>3. /\ OnlyMoves(h) /\ handler'[h].stage = "post" /\ handler'[h].row = handler[h].row
  BY <1>1, <1>2, GotoIs
<1>4. RowsOK'
  BY <1>1, <1>2, <1>3, RowsStay DEF Past
<1>5. ASSUME Undisturbed' PROVE Trail(h)'
  <2>1. balance = Opening - Total(rows) /\ handler[h].before = balance
    BY <1>1, <1>2, <1>5, TurnBefore DEF Trail, At, Holding, Explained
  <2>2. balance' = Opening - Total(rows) - Mine(h).amount
    BY <1>1, <2>1
  <2>3. Mine(h)' = Mine(h)
    BY <1>1, <1>3 DEF Mine
  <2>4. (balance = Opening - Total(rows) - Mine(h).amount)'
    BY <1>1, <2>2, <2>3
  <2> QED
    BY <1>3, <2>4 DEF Trail, At, Holding
<1> QED
  BY <1>1, <1>2, <1>3, <1>4, <1>5, TurnGoes DEF Calling

\* and the rows catch up.
LEMMA TurnPosts ==
    ASSUME TurnStep, NEW h \in Requests, PostRow(h)
    PROVE  TurnInv'
<1>1. PICK x : x = [by |-> h, amount |-> Mine(h).amount]
  OBVIOUS
<1>2. /\ handler[h].stage = "post" /\ rows' = rows \cup {x}
      /\ Goto(h, "finish") /\ UNCHANGED <<balance, refund, gatewayRow, paidBack, spent>>
  BY <1>1 DEF PostRow, At
<1>3. /\ RefundInv /\ RowsOK /\ Running(h) /\ handler[h].row # NoRefund /\ SameRefunds
      /\ ~At(h, "gatewayrow") /\ Mine(h).amount \in Int
  <2>1. /\ RefundInv /\ RowsOK /\ Running(h) /\ handler[h].row # NoRefund
        /\ Mine(h).amount \in Parts
    BY <1>2, WorksOn
  <2>2. SameRefunds
    BY <1>2, <2>1, SameMeansSame
  <2>3. \A a \in Parts : a \in Int
    BY RefundAssumption
  <2> QED
    BY <1>2, <2>1, <2>2, <2>3 DEF At
<1>4. /\ OnlyMoves(h) /\ handler'[h].stage = "finish" /\ handler'[h].row = handler[h].row
  BY <1>2, <1>3, GotoIs
<1>5. x.by = h /\ x.amount = Mine(h).amount /\ h \notin Spenders
  BY <1>1, RefundAssumption DEF Requests
<1>6. x \notin rows
  BY <1>2, <1>3, <1>5 DEF RowsOK, Past
<1>7. RowsOK'
  <2>1. IsFiniteSet(rows')
    BY <1>2, <1>3, FS_AddElement DEF RowsOK
  <2>2. ASSUME NEW w \in rows'
        PROVE  /\ w.by \in Requests => handler'[w.by].stage \in Past
               /\ w.by \in Spenders => w.by \in spent'
    BY <1>2, <1>3, <1>4, <1>5 DEF RowsOK, OnlyMoves, Past
  <2> QED
    BY <2>1, <2>2 DEF RowsOK
<1>8. ASSUME Undisturbed' PROVE Trail(h)'
  <2>1. balance = Opening - Total(rows) - Mine(h).amount
    BY <1>2, <1>3, <1>8, TurnBefore DEF Trail, At
  <2>2. Total(rows') = Mine(h).amount + Total(rows) /\ Total(rows) \in Int
    BY <1>2, <1>3, <1>5, <1>6, RowsAddUp, TotalAdds DEF RowsOK
  <2>3. Opening - Total(rows) - Mine(h).amount = Opening - (Mine(h).amount + Total(rows))
    <3>1. \A i, j, k \in Int : i - j - k = i - (k + j)
      OBVIOUS
    <3> QED
      BY <1>3, <2>2, <3>1, RefundAssumption
  <2>4. Explained'
    BY <1>2, <2>1, <2>2, <2>3 DEF Explained
  <2> QED
    BY <1>4, <2>4 DEF Trail, At, Holding
<1> QED
  BY <1>2, <1>3, <1>4, <1>7, <1>8, TurnGoes DEF Calling

\* The gateway pays back what the request has claimed.
LEMMA TurnPaysBack ==
    ASSUME TurnStep, NEW h \in Requests, At(h, "gateway"), PayBack(h), Goto(h, "gatewayrow"),
           UNCHANGED <<balance, rows, refund, gatewayRow, spent>>
    PROVE  TurnInv'
<1>1. handler[h].stage = "gateway"
  BY DEF At
<1>2. /\ RefundInv /\ RowsOK /\ Running(h) /\ handler[h].row # NoRefund
  BY <1>1, WorksOn
<1>3. /\ OnlyMoves(h) /\ handler'[h].stage = "gatewayrow" /\ handler'[h].before = handler[h].before
      /\ handler'[h].row = handler[h].row
  BY <1>2, GotoIs
<1>4. RowsOK'
  BY <1>1, <1>2, <1>3, RowsStay DEF Past
<1>5. \A g \in Requests : Mine(g)' = Mine(g)
  BY <1>3 DEF Mine, OnlyMoves
<1>6. \A g \in Requests \ {h} : paidBack'[g] = paidBack[g] /\ handler'[g] = handler[g]
  BY <1>2, <1>3 DEF PayBack, RefundInv, RTypeOK, OnlyMoves
<1>7. ASSUME Undisturbed' PROVE OneRefund' /\ PaidHasRow' /\ Claims(h)' /\ Trail(h)'
  <2>1. OneRefund /\ PaidHasRow /\ Claims(h) /\ Trail(h)
    BY <1>2, <1>7, TurnBefore
  <2>2. h \in Creators => Free(h, Mine(h).pay)
    BY <1>1, <2>1 DEF Claims, Calling
  <2>3. OneRefund'
    <3> SUFFICES ASSUME NEW g \in Creators, NEW k \in Creators, paidBack'[g] > 0, paidBack'[k] > 0,
                        Mine(g).pay = Mine(k).pay
                 PROVE  g = k
      BY <1>5 DEF OneRefund, Requests
    <3>1. CASE g # h /\ k # h
      BY <1>6, <2>1, <3>1 DEF OneRefund, Requests
    <3>2. CASE g = h
      BY <1>6, <2>2, <3>2 DEF Free, Requests
    <3>3. CASE k = h
      BY <1>6, <2>2, <3>3 DEF Free, Requests
    <3> QED
      BY <3>1, <3>2, <3>3
  <2>4. PaidHasRow'
    BY <1>3, <1>6, <2>1 DEF PaidHasRow, At
  <2>5. Claims(h)'
    BY <1>3 DEF Claims, Calling
  <2>6. Trail(h)'
    BY <1>1, <1>3, <2>1 DEF Trail, At, Holding, Explained
  <2> QED
    BY <2>3, <2>4, <2>5, <2>6
<1> QED
  BY <1>2, <1>3, <1>4, <1>7, TurnMoves

LEMMA TurnCalls ==
    ASSUME TurnStep, NEW h \in Requests, CallGateway(h)
    PROVE  TurnInv'
<1>1. handler[h].stage = "gateway" /\ UNCHANGED <<balance, rows, refund, gatewayRow, spent>>
  BY DEF CallGateway, At
<1>2. CASE PayBack(h) /\ Goto(h, "gatewayrow")
  BY <1>1, <1>2, TurnPaysBack DEF At
<1>3. CASE paidBack' = paidBack /\ Goto(h, "fail")
  <2>1. SameRefunds
    BY <1>1, WorksOn, SameMeansSame
  <2> QED
    BY <1>1, <1>3, <2>1, TurnPasses DEF Calling, Holding, Past, At
<1> QED
  BY <1>2, <1>3 DEF CallGateway

\* Once a query has failed nothing is promised but what holds of the rows.
LEMMA TurnFaults ==
    ASSUME TurnStep, NEW h \in Requests, Fault(h)
    PROVE  TurnInv'
<1>1. PICK s \in {"fail", "done"} : Goto(h, s)
  BY DEF Fault
<1>2. RefundInv /\ RowsOK /\ UNCHANGED <<rows, spent>>
  BY DEF TurnStep, TurnInv, Fault
<1>3. OnlyMoves(h) /\ handler'[h].stage = s
  BY <1>1, <1>2, GotoIs
<1>4. RowsOK'
  BY <1>2, <1>3, RowsStay DEF Past
<1>5. ~Undisturbed'
  <2>1. faults \in Nat /\ faults' = faults + 1
    BY <1>2, RefundAssumption DEF Fault, RefundInv, RTypeOK
  <2>2. faults' # 0
    BY <2>1
  <2> QED
    BY <2>2 DEF Undisturbed
<1> QED
  BY <1>4, <1>5 DEF TurnInv, TurnStep

\* The user spends when no request is at work, and the rows say so.
LEMMA TurnSpends ==
    ASSUME TurnStep, NEW s \in Spenders, NEW a \in Parts, Spend(s, a)
    PROVE  TurnInv'
<1>1. PICK x : x = [by |-> s, amount |-> a]
  OBVIOUS
<1>2. /\ s \notin spent /\ balance' = balance - a /\ rows' = rows \cup {x}
      /\ spent' = spent \cup {s}
      /\ UNCHANGED <<refund, gatewayRow, paidBack, handler>>
  BY <1>1 DEF Spend
<1>3. RefundInv /\ RowsOK /\ balance \in Int /\ a \in Int
  BY RefundAssumption DEF TurnStep, TurnInv, RefundInv, RTypeOK
<1>4. x.by = s /\ x.amount = a /\ s \notin Requests
  BY <1>1, RefundAssumption DEF Requests
<1>5. x \notin rows
  BY <1>2, <1>3, <1>4 DEF RowsOK
<1>6. RowsOK'
  <2>1. IsFiniteSet(rows')
    BY <1>2, <1>3, FS_AddElement DEF RowsOK
  <2>2. ASSUME NEW w \in rows'
        PROVE  /\ w.by \in Requests => handler'[w.by].stage \in Past
               /\ w.by \in Spenders => w.by \in spent'
    BY <1>2, <1>3, <1>4 DEF RowsOK
  <2> QED
    BY <2>1, <2>2 DEF RowsOK
<1>7. \A g \in Requests : Running(g)' = Running(g) /\ Mine(g)' = Mine(g) /\ \A t : At(g, t)' = At(g, t)
  BY <1>2 DEF Running, Mine, At
<1>8. ASSUME Undisturbed'
      PROVE  /\ OneAtWork' /\ OneRefund' /\ PaidHasRow'
             /\ \A g \in Requests : Running(g)' => Claims(g)' /\ Trail(g)'
             /\ Quiet' => Explained'
  <2>1. OneAtWork' /\ OneRefund /\ PaidHasRow /\ Quiet /\ Explained
    <3>1. spent' # spent
      BY <1>2
    <3> QED
      BY <1>8, <3>1, TurnBefore
  <2>2. OneRefund'
    BY <1>2, <1>7, <2>1 DEF OneRefund, Requests
  <2>3. PaidHasRow'
    BY <1>2, <1>7, <2>1 DEF PaidHasRow
  <2>4. \A g \in Requests : ~Running(g)'
    BY <1>7, <2>1 DEF Quiet
  <2>5. Explained'
    <3>1. Total(rows') = a + Total(rows) /\ Total(rows) \in Int
      BY <1>2, <1>3, <1>4, <1>5, RowsAddUp, TotalAdds DEF RowsOK
    <3>2. \A i, j, k \in Int : i - j - k = i - (k + j)
      OBVIOUS
    <3>3. balance - a = Opening - (a + Total(rows))
      BY <1>3, <2>1, <3>1, <3>2, RefundAssumption DEF Explained
    <3> QED
      BY <1>2, <3>1, <3>3 DEF Explained
  <2> QED
    BY <2>1, <2>2, <2>3, <2>4, <2>5
<1> QED
  BY <1>6, <1>8 DEF TurnInv, TurnStep

LEMMA FaultsGrow == ASSUME RefundInv, [RNext]_rvars PROVE faults <= faults'
<1>1. faults \in Int
  BY RefundAssumption DEF RefundInv, RTypeOK
<1>2. faults' = faults \/ faults' = faults + 1
  BY DEF RNext, rvars, CreateRefund, InsertRefund, Retry, ReadAll, Approve, FindPayment, CallGateway,
         InsertGatewayRow, SavePayment, SaveWallet, PostRow, Finish, Fault, Spend
<1> QED
  BY <1>1, <1>2

LEMMA TurnInit == MCInit => TurnInv
<1> SUFFICES ASSUME MCInit
             PROVE  TurnInv
  OBVIOUS
<1>1. RInit /\ RefundInv
  BY InitRefund DEF MCInit
<1>2. /\ rows = {} /\ balance = Opening
      /\ \A h \in Requests : ~Running(h) /\ paidBack[h] = 0
  BY <1>1 DEF RInit, Running
<1>3. RowsOK
  BY <1>2, FS_EmptySet DEF RowsOK
<1>4. Explained
  BY <1>2, TotalEmpty, RefundAssumption DEF Explained
<1>5. OneRefund /\ PaidHasRow /\ OneAtWork
  BY <1>2 DEF OneRefund, PaidHasRow, OneAtWork, Requests
<1> QED
  BY <1>1, <1>2, <1>3, <1>4, <1>5 DEF TurnInv

\* Nothing happens
LEMMA TurnIdles ==
    ASSUME TurnInv, UNCHANGED <<rvars, overlapped>>
    PROVE  TurnInv'
<1>1. UNCHANGED <<balance, rows, refund, gatewayRow, paidBack, givenBack, paymentStatus, handler, spent,
                  faults, overlapped>>
  BY DEF rvars
<1>2. RefundInv'
  BY StepRefund DEF TurnInv
<1>3. RowsOK' = RowsOK /\ Undisturbed' = Undisturbed
  BY <1>1 DEF RowsOK, Undisturbed
<1>4. \A g \in Requests : Running(g)' = Running(g) /\ Mine(g)' = Mine(g) /\ \A t : At(g, t)' = At(g, t)
  BY <1>1 DEF Running, Mine, At
<1>5. OneAtWork' = OneAtWork /\ OneRefund' = OneRefund /\ PaidHasRow' = PaidHasRow
      /\ Quiet' = Quiet /\ Explained' = Explained
  <2>1. OneAtWork' = OneAtWork /\ Quiet' = Quiet
    BY <1>4 DEF OneAtWork, Quiet
  <2>2. OneRefund' = OneRefund
    BY <1>1, <1>4 DEF OneRefund, Requests
  <2>3. PaidHasRow' = PaidHasRow
    BY <1>1, <1>4 DEF PaidHasRow
  <2>4. Explained' = Explained
    BY <1>1 DEF Explained
  <2> QED
    BY <2>1, <2>2, <2>3, <2>4
<1>6. \A g \in Requests : Claims(g)' = Claims(g) /\ Trail(g)' = Trail(g)
  BY <1>1, <1>4, <1>5 DEF Claims, Free, Trail
<1> QED
  BY <1>2, <1>3, <1>4, <1>5, <1>6 DEF TurnInv

LEMMA TurnNext == TurnInv /\ [MCNext]_<<rvars, overlapped>> => TurnInv'
<1> SUFFICES ASSUME TurnInv, [MCNext]_<<rvars, overlapped>>
             PROVE  TurnInv'
  OBVIOUS
<1>1. CASE UNCHANGED <<rvars, overlapped>>
  BY <1>1, TurnIdles
<1>2. CASE RNext /\ Turns
  <2>1. RefundInv' /\ faults <= faults'
    BY <1>2, StepRefund, FaultsGrow DEF TurnInv
  <2>2. TurnStep
    BY <1>2, <2>1 DEF TurnStep
  <2>3. CASE \E h \in Creators, p \in Payments, a \in Parts : CreateRefund(h, p, a)
    BY <2>2, <2>3, TurnCreates
  <2>4. CASE \E h \in Creators : InsertRefund(h)
    BY <2>2, <2>4, TurnInserts
  <2>5. CASE \E h \in Retriers, c \in Creators : Retry(h, c)
    BY <2>2, <2>5, TurnRetries
  <2>6. CASE \E h \in Requests : ReadAll(h) \/ Approve(h) \/ FindPayment(h)
    BY <2>2, <2>6, TurnReads, TurnApproves, TurnFinds
  <2>7. CASE \E h \in Requests : CallGateway(h) \/ InsertGatewayRow(h) \/ SavePayment(h)
    BY <2>2, <2>7, TurnCalls, TurnRecords, TurnSavesPayment
  <2>8. CASE \E h \in Requests : SaveWallet(h) \/ PostRow(h)
    BY <2>2, <2>8, TurnDebits, TurnPosts
  <2>9. CASE \E h \in Requests : Finish(h) \/ Fault(h)
    BY <2>2, <2>9, TurnFinishes, TurnFaults
  <2>10. CASE \E s \in Spenders, a \in Parts : Spend(s, a)
    BY <2>2, <2>10, TurnSpends
  <2> QED
    BY <1>2, <2>3, <2>4, <2>5, <2>6, <2>7, <2>8, <2>9, <2>10 DEF RNext
<1> QED
  BY <1>1, <1>2 DEF MCNext

\* When the requests and the user wait for each other and no query fails, the gateway pays each
\* payment back once, retries apart, and the rows explain the balance whenever no refund is in
\* progress (createRefund, processRefund).
THEOREM RefundsFollowInTurn == MCSpec => []RefundsInTurn
<1>1. TurnInv => RefundsInTurn
  BY DEF TurnInv, RefundsInTurn, RefundTrail, Explained, Total
<1> QED
  BY TurnInit, TurnNext, <1>1, PTL DEF MCSpec
=============================================================================
