------------------------- MODULE RegistrationProofs -------------------------
(***************************************************************************)
(* Registration for any number of ReadSets, authorities and generations:   *)
(* nothing stale is Valid and no change is lost.  The argument follows a   *)
(* live registration: it is always linked from its head or held by the     *)
(* sweep that detached it (LinkInv), so every writer sees the head linked  *)
(* or detached, keeps its stamp and queues it; what the sweep has taken is *)
(* either judged against a cutoff that reveals the change, or queued again *)
(* (LostInv).                                                              *)
(***************************************************************************)
EXTENDS Registration, TLAPS

\* The chain is detached exactly while the sweep works on it.
DetachInv ==
    /\ \A h \in Head : detached[h] <=> current = h
    /\ current = None => chain = {} /\ live = {}
    /\ current # None => sweeping
    /\ batch # {} => sweeping

\* Writers still find the absent registrations the sweep has detached.
WatchInv == current = Absence => chain \cup live \subseteq watch

\* What is linked from a head is registered on it.
MemberInv ==
    /\ \A h \in Head : \A c \in first[h] : cellHead[c] = h
    /\ \A c \in chain \cup live : cellHead[c] = current
    /\ \A c \in watch : cellHead[c] = Absence

Active(c) == phase[c] \in {"registered", "late"}

PhaseInv ==
    \A c \in Cell :
        /\ ~Active(c) => cellHead[c] = None
        /\ phase[c] = "captured" => cellGen[c] = captured[c]
        /\ Active(c) => cellHead[c] \in {c[2], Absence}
        /\ phase[c] = "late" => invalid[c[1]]

LinkInv ==
    \A c \in Cell :
        Active(c) /\ ~retired[c[1]] =>
            c \in first[cellHead[c]] \/ (current = cellHead[c] /\ c \in chain \cup live)

GenInv ==
    /\ \A c \in Cell : captured[c] <= generation[c[2]]
    /\ \A a \in Authority : stamp[a] <= generation[a]

\* A registration on an authority's own head keeps the generation it saw; on
\* the absence head it has 0 until the authority is admitted.
CellInv ==
    \A c \in Cell : Active(c) =>
        /\ cellHead[c] = c[2] => cellGen[c] = captured[c] /\ generation[c[2]] > 0
        /\ cellHead[c] = Absence => /\ captured[c] = 0
                                    /\ phase[c] = "registered"
                                    /\ cellGen[c] <= stamp[Absence]
                                    /\ generation[c[2]] = 0 => cellGen[c] = 0

\* What a registration shows, unless it was late.
StaleInv ==
    \A c \in Cell : phase[c] = "registered" /\ ~retired[c[1]] /\ Current(c)
                        => generation[c[2]] = captured[c]

PendInv == \A h \in Head : pending[h] => h \in queued \cup batch \cup UNION {pushing[r] : r \in Reader}

LostInv ==
    \A c \in Cell :
        Moved(c) /\ phase[c] = "registered" /\ ~retired[c[1]] /\ ~delivered[c[1]] =>
            \/ pending[cellHead[c]]
            \/ current = cellHead[c] /\ c \in chain /\ Changed(c)

Inv ==
    /\ TypeOK /\ DetachInv /\ WatchInv /\ MemberInv /\ PhaseInv /\ LinkInv
    /\ GenInv /\ CellInv /\ StaleInv /\ PendInv /\ LostInv
-----------------------------------------------------------------------------
USE RegistrationAssumption DEF Head, Cell

\* A registration is the pair of its ReadSet and its authority.
LEMMA CellPairs ==
    /\ \A c \in Cell : c[1] \in Reader /\ c[2] \in Authority /\ c = <<c[1], c[2]>>
    /\ \A r \in Reader, a \in Authority : <<r, a>> \in Cell
  OBVIOUS

\* A getter touches one registration, which is on no head yet.
LEMMA CaptureStep ==
  ASSUME Inv, NEW r \in Reader, NEW a \in Authority, Capture(r, a)
  PROVE  Inv'
  <1>1. PhaseInv'
    BY DEF Inv, TypeOK, PhaseInv, Active, Capture, flagVars
  <1>2. GenInv'
    BY DEF Inv, TypeOK, GenInv, Capture, headVars
  <1>3. /\ TypeOK' /\ DetachInv' /\ WatchInv' /\ MemberInv'
        /\ LinkInv' /\ CellInv' /\ StaleInv' /\ PendInv' /\ LostInv'
    BY DEF Inv, TypeOK, DetachInv, WatchInv, MemberInv, LinkInv, CellInv, StaleInv, PendInv,
        LostInv, Active, Current, Moved, Changed, Capture, headVars, flagVars, sweepVars
  <1> QED BY <1>1, <1>2, <1>3 DEF Inv

\* Registering: the new registration joins its head, and only a head nobody
\* looks at has its stamp replaced.
LEMMA ActivateStep ==
  ASSUME Inv, NEW r \in Reader, NEW a \in Authority, activate(r, a)
  PROVE  Inv'
  <1> DEFINE c0 == <<r, a>>
             h0 == IF generation[a] = 0 THEN Absence ELSE a
  <1>1. /\ c0 \in Cell /\ c0[1] = r /\ c0[2] = a
        /\ phase[c0] = "captured" /\ cellHead[c0] = None
        /\ cellGen[c0] = captured[c0] /\ captured[c0] <= generation[a]
        /\ h0 \in Head
    BY DEF Inv, TypeOK, PhaseInv, GenInv, Active, activate
  <1>2. /\ cellHead'[c0] = h0
        /\ cellGen'[c0] = (IF h0 = Absence THEN 0 ELSE cellGen[c0])
        /\ phase'[c0] = (IF generation[a] = cellGen[c0] THEN "registered" ELSE "late")
        /\ invalid'[r] = (invalid[r] \/ generation[a] # cellGen[c0])
    BY <1>1 DEF Inv, TypeOK, activate
  <1>3. \A c \in Cell : c # c0 => /\ cellHead'[c] = cellHead[c] /\ cellGen'[c] = cellGen[c]
                                  /\ phase'[c] = phase[c]
    BY DEF Inv, TypeOK, activate
  <1>4. \A s \in Reader : invalid[s] => invalid'[s]
    BY DEF Inv, TypeOK, activate
  <1>5. \A h \in Head : first'[h] = IF h = h0 THEN first[h] \cup {c0} ELSE first[h]
    BY <1>1 DEF Inv, TypeOK, activate
  <1>6. \A h \in Head : stamp'[h] = IF h = a /\ h0 = a /\ first[a] = {} /\ ~detached[a]
                                    THEN generation[a] ELSE stamp[h]
    BY <1>1 DEF Inv, TypeOK, activate
  <1>7. UNCHANGED <<generation, pending, queued, detached, watch, captured, delivered, retired,
                    pushing, sweeping, batch, current, chain, cutoff, live>>
    BY DEF activate, sweepVars
  <1>8. TypeOK'
    BY <1>1 DEF Inv, TypeOK, activate, sweepVars
  <1>9. DetachInv' /\ WatchInv' /\ PendInv'
    BY <1>7 DEF Inv, DetachInv, WatchInv, PendInv
  <1>10. MemberInv'
    <2>1. \A h \in Head : \A c \in first'[h] : cellHead'[c] = h
      <3> SUFFICES ASSUME NEW h \in Head, NEW c \in first'[h]
                   PROVE  cellHead'[c] = h
        OBVIOUS
      <3>1. CASE c = c0
        BY <3>1, <1>1, <1>2, <1>5 DEF Inv, MemberInv
      <3>2. CASE c # c0
        <4>1. first'[h] \subseteq first[h] \cup {c0}
          BY <1>5
        <4>2. c \in first[h]
          BY <3>2, <4>1
        <4>3. first[h] \subseteq Cell
          BY DEF Inv, TypeOK
        <4> QED BY <3>2, <4>2, <4>3, <1>3 DEF Inv, MemberInv
      <3> QED BY <3>1, <3>2
    <2>2. \A c \in chain \cup live : c \in Cell /\ c # c0
      <3>1. \A c \in chain \cup live : cellHead[c] = current /\ current # None
        BY DEF Inv, MemberInv, DetachInv
      <3> QED BY <3>1, <1>1 DEF Inv, TypeOK
    <2>3. \A c \in watch : c \in Cell /\ c # c0
      BY <1>1 DEF Inv, TypeOK, MemberInv
    <2> QED BY <2>1, <2>2, <2>3, <1>3, <1>7 DEF Inv, MemberInv
  <1>11. PhaseInv'
    <2> SUFFICES ASSUME NEW c \in Cell
                 PROVE  /\ ~Active(c)' => cellHead'[c] = None
                        /\ phase'[c] = "captured" => cellGen'[c] = captured'[c]
                        /\ Active(c)' => cellHead'[c] \in {c[2], Absence}
                        /\ phase'[c] = "late" => invalid'[c[1]]
      BY DEF PhaseInv
    <2>1. CASE c = c0
      BY <2>1, <1>1, <1>2 DEF Active
    <2>2. CASE c # c0
      BY <2>2, <1>3, <1>4, <1>7 DEF Inv, PhaseInv, Active
    <2> QED BY <2>1, <2>2
  <1>12. LinkInv'
    <2> SUFFICES ASSUME NEW c \in Cell, Active(c)', ~retired'[c[1]]
                 PROVE  c \in first'[cellHead'[c]] \/ (current' = cellHead'[c] /\ c \in chain' \cup live')
      BY DEF LinkInv
    <2>1. CASE c = c0
      BY <2>1, <1>1, <1>2, <1>5
    <2>2. CASE c # c0
      <3>1. Active(c) /\ cellHead[c] \in Head
        BY <2>2, <1>3, CellPairs DEF Inv, PhaseInv, Active
      <3>2. first[cellHead[c]] \subseteq first'[cellHead[c]]
        BY <3>1, <1>5
      <3> QED BY <2>2, <3>1, <3>2, <1>3, <1>7 DEF Inv, LinkInv
    <2> QED BY <2>1, <2>2
  <1>13. GenInv'
    BY <1>1, <1>6, <1>7 DEF Inv, TypeOK, GenInv
  <1>14. CellInv'
    <2> SUFFICES ASSUME NEW c \in Cell, Active(c)'
                 PROVE  /\ cellHead'[c] = c[2] => cellGen'[c] = captured'[c] /\ generation'[c[2]] > 0
                        /\ cellHead'[c] = Absence => /\ captured'[c] = 0
                                                     /\ phase'[c] = "registered"
                                                     /\ cellGen'[c] <= stamp'[Absence]
                                                     /\ generation'[c[2]] = 0 => cellGen'[c] = 0
      BY DEF CellInv
    <2>1. CASE c = c0
      BY <2>1, <1>1, <1>2, <1>6, <1>7 DEF Inv, TypeOK
    <2>2. CASE c # c0
      BY <2>2, <1>3, <1>6, <1>7 DEF Inv, CellInv, Active
    <2> QED BY <2>1, <2>2
  <1>15. StaleInv'
    <2> SUFFICES ASSUME NEW c \in Cell, phase'[c] = "registered", ~retired'[c[1]], Current(c)'
                 PROVE  generation'[c[2]] = captured'[c]
      BY DEF StaleInv
    <2>1. CASE c = c0
      BY <2>1, <1>1, <1>2, <1>7
    <2>2. CASE c # c0
      <3>1. phase[c] = "registered" /\ ~retired[c[1]] /\ cellHead[c] \in {c[2], Absence}
        BY <2>2, <1>3, <1>7 DEF Inv, PhaseInv, Active
      <3>2. cellHead[c] = a => first[a] # {} \/ detached[a]
        BY <3>1 DEF Inv, LinkInv, DetachInv, Active
      <3>3. stamp'[cellHead[c]] = stamp[cellHead[c]]
        BY <3>1, <3>2, <1>6
      <3>4. Current(c)
        BY <2>2, <3>3, <1>3 DEF Current
      <3> QED BY <3>1, <3>4, <1>7 DEF Inv, StaleInv
    <2> QED BY <2>1, <2>2
  <1>16. LostInv'
    <2> SUFFICES ASSUME NEW c \in Cell, Moved(c)', phase'[c] = "registered",
                        ~retired'[c[1]], ~delivered'[c[1]]
                 PROVE  \/ pending'[cellHead'[c]]
                        \/ current' = cellHead'[c] /\ c \in chain' /\ Changed(c)'
      BY DEF LostInv
    <2>1. c # c0
      BY <1>1, <1>2, <1>7 DEF Moved
    <2> QED BY <2>1, <1>3, <1>7 DEF Inv, LostInv, Moved, Changed
  <1> QED BY <1>8, <1>9, <1>10, <1>11, <1>12, <1>13, <1>14, <1>15, <1>16 DEF Inv

\* Valid only ever sets invalid.
LEMMA ValidateStep ==
  ASSUME Inv, NEW r \in Reader, Validate(r)
  PROVE  Inv'
  <1>1. /\ TypeOK' /\ DetachInv' /\ WatchInv' /\ MemberInv' /\ PhaseInv'
        /\ LinkInv' /\ GenInv' /\ CellInv' /\ StaleInv' /\ PendInv' /\ LostInv'
    BY DEF Inv, TypeOK, DetachInv, WatchInv, MemberInv, PhaseInv, LinkInv, GenInv, CellInv,
        StaleInv, PendInv, LostInv, Active, Current, Moved, Changed, Validate, headVars,
        cellVars, sweepVars
  <1> QED BY <1>1 DEF Inv

\* Retire only ever makes a ReadSet retired.
LEMMA RetireTyped ==
  ASSUME Inv, NEW r \in Reader, Retire(r)
  PROVE  TypeOK'
  <1>1. {cellHead[<<r, a>>] : a \in Authority} \ {None} \subseteq Head
    <2> SUFFICES ASSUME NEW a \in Authority, cellHead[<<r, a>>] # None
                 PROVE  cellHead[<<r, a>>] \in Head
      OBVIOUS
    <2>1. <<r, a>> \in Cell
      BY CellPairs
    <2> QED BY <2>1 DEF Inv, TypeOK
  <1>2. retiring' \in [Reader -> SUBSET Head]
    BY <1>1 DEF Inv, TypeOK, Retire
  <1> QED BY <1>2 DEF Inv, TypeOK, Retire, headVars, cellVars, sweepVars

LEMMA RetireStep ==
  ASSUME Inv, NEW r \in Reader, Retire(r)
  PROVE  Inv'
  <1>1. TypeOK'
    BY RetireTyped
  <1>2. /\ DetachInv' /\ WatchInv' /\ MemberInv' /\ PhaseInv' /\ LinkInv'
        /\ GenInv' /\ CellInv' /\ StaleInv' /\ PendInv' /\ LostInv'
    BY DEF Inv, DetachInv, WatchInv, MemberInv, PhaseInv, LinkInv, GenInv, CellInv, StaleInv,
        PendInv, LostInv, Active, Current, Moved, Changed, Retire, headVars, cellVars, sweepVars
  <1> QED BY <1>1, <1>2 DEF Inv

\* A head marked pending by Retire is one its ReadSet is about to push.
LEMMA RetireQueueHard ==
  ASSUME Inv, NEW r \in Reader, NEW h \in Head, RetireQueue(r, h)
  PROVE  TypeOK' /\ PendInv' /\ LostInv'
  <1>1. /\ pending' \in [Head -> BOOLEAN] /\ pushing' \in [Reader -> SUBSET Head]
        /\ retiring' \in [Reader -> SUBSET Head]
    <2>1. retiring' \in [Reader -> SUBSET Head]
      BY DEF Inv, TypeOK, RetireQueue
    <2>2. CASE Linked(h) /\ ~pending[h]
      <3>1. pending' = [pending EXCEPT ![h] = TRUE]
        BY <2>2 DEF RetireQueue
      <3>2. pushing' = [pushing EXCEPT ![r] = @ \cup {h}]
        BY <2>2 DEF RetireQueue
      <3>3. pending' \in [Head -> BOOLEAN]
        BY <3>1 DEF Inv, TypeOK
      <3>4. pushing' \in [Reader -> SUBSET Head]
        BY <3>2 DEF Inv, TypeOK
      <3> QED BY <2>1, <3>3, <3>4
    <2>3. CASE ~(Linked(h) /\ ~pending[h])
      BY <2>1, <2>3 DEF Inv, TypeOK, RetireQueue
    <2> QED BY <2>2, <2>3
  <1>2. TypeOK'
    BY <1>1 DEF Inv, TypeOK, RetireQueue, cellVars, sweepVars
  <1>3. \A k \in Head : pending[k] => pending'[k]
    BY DEF Inv, TypeOK, RetireQueue
  <1>4. \A k \in Head : pending'[k] => pending[k] \/ (k = h /\ h \in pushing'[r])
    BY DEF Inv, TypeOK, RetireQueue
  <1>5. \A s \in Reader : pushing[s] \subseteq pushing'[s]
    BY DEF Inv, TypeOK, RetireQueue
  <1>6. PendInv'
    <2> SUFFICES ASSUME NEW k \in Head, pending'[k]
                 PROVE  k \in queued \cup batch \cup UNION {pushing'[s] : s \in Reader}
      BY DEF PendInv, RetireQueue, sweepVars
    <2>1. CASE pending[k]
      BY <2>1, <1>5 DEF Inv, PendInv
    <2>2. CASE ~pending[k]
      BY <2>2, <1>4
    <2> QED BY <2>1, <2>2
  <1>7. LostInv'
    <2> SUFFICES ASSUME NEW c \in Cell, Moved(c)', phase'[c] = "registered",
                        ~retired'[c[1]], ~delivered'[c[1]]
                 PROVE  \/ pending'[cellHead'[c]]
                        \/ current' = cellHead'[c] /\ c \in chain' /\ Changed(c)'
      BY DEF LostInv
    <2>1. /\ UNCHANGED <<generation, phase, cellHead, cellGen, captured, retired, delivered, current,
                         chain, cutoff>>
          /\ cellHead[c] \in Head
      BY DEF Inv, TypeOK, PhaseInv, Active, RetireQueue, cellVars, sweepVars
    <2> QED BY <2>1, <1>3 DEF Inv, LostInv, Moved, Changed
  <1> QED BY <1>2, <1>6, <1>7

LEMMA RetireQueueStep ==
  ASSUME Inv, NEW r \in Reader, NEW h \in Head, RetireQueue(r, h)
  PROVE  Inv'
  <1>1. TypeOK' /\ PendInv' /\ LostInv'
    BY RetireQueueHard
  <1>2. /\ DetachInv' /\ WatchInv' /\ MemberInv' /\ PhaseInv'
        /\ LinkInv' /\ GenInv' /\ CellInv' /\ StaleInv'
    BY DEF Inv, DetachInv, WatchInv, MemberInv, PhaseInv, LinkInv, GenInv, CellInv, StaleInv,
        Active, Current, RetireQueue, cellVars, sweepVars
  <1> QED BY <1>1, <1>2 DEF Inv

\* Pushing moves a head from pushing to the list of the shard.
LEMMA RetirePushStep ==
  ASSUME Inv, NEW r \in Reader, NEW h \in Head, RetirePush(r, h)
  PROVE  Inv'
  <1>1. /\ TypeOK' /\ DetachInv' /\ WatchInv' /\ MemberInv' /\ PhaseInv'
        /\ LinkInv' /\ GenInv' /\ CellInv' /\ StaleInv' /\ PendInv' /\ LostInv'
    BY DEF Inv, TypeOK, DetachInv, WatchInv, MemberInv, PhaseInv, LinkInv, GenInv, CellInv,
        StaleInv, PendInv, LostInv, Active, Current, Moved, Changed, RetirePush, cellVars,
        sweepVars
  <1> QED BY <1>1 DEF Inv

\* The first write: every registration that saw nothing is stamped, and the
\* absence head queued, even while the sweep holds it.
LEMMA AdmitLost ==
  ASSUME Inv, NEW a \in Authority, Admit(a)
  PROVE  LostInv'
  <1> SUFFICES ASSUME NEW c \in Cell, Moved(c)', phase'[c] = "registered",
                      ~retired'[c[1]], ~delivered'[c[1]]
               PROVE  \/ pending'[cellHead'[c]]
                      \/ current' = cellHead'[c] /\ c \in chain' /\ Changed(c)'
    BY DEF LostInv
  <1>1. /\ UNCHANGED <<phase, cellHead, captured, retired, delivered, current, chain, cutoff>>
        /\ \A b \in Authority : b # a => generation'[b] = generation[b]
        /\ \A h \in Head : pending[h] => pending'[h]
    BY DEF Inv, TypeOK, Admit, Queue, flagVars, sweepVars
  <1>2. c[2] \in Authority /\ c[1] \in Reader /\ Active(c) /\ cellHead[c] \in {c[2], Absence}
    BY <1>1, CellPairs DEF Inv, PhaseInv, Active
  <1>3. CASE c[2] = a
    <2>1. generation[a] = 0
      BY DEF Admit
    <2>2. cellHead[c] = Absence /\ cellGen[c] = 0
      BY <1>2, <1>3, <2>1 DEF Inv, TypeOK, CellInv
    <2>3. c \in first[Absence] \cup watch
      BY <1>1, <1>2, <2>2 DEF Inv, LinkInv, WatchInv
    <2>4. first[Absence] # {} \/ detached[Absence]
      BY <1>1, <1>2, <2>2 DEF Inv, LinkInv, DetachInv
    <2>5. pending'[Absence]
      BY <1>3, <2>2, <2>3, <2>4 DEF Admit, Queue, Linked
    <2> QED BY <1>1, <2>2, <2>5
  <1>4. CASE c[2] # a
    <2>1. cellGen'[c] = cellGen[c]
      BY <1>4 DEF Inv, TypeOK, Admit
    <2>2. Moved(c)
      BY <1>1, <1>2, <1>4 DEF Moved
    <2> QED BY <1>1, <1>2, <2>1, <2>2 DEF Inv, LostInv, Changed
  <1> QED BY <1>3, <1>4

LEMMA AdmitStep ==
  ASSUME Inv, NEW a \in Authority, Admit(a)
  PROVE  Inv'
  <1>1. PhaseInv'
    BY DEF Inv, MemberInv, PhaseInv, Active, Admit, flagVars
  <1>2. GenInv'
    BY DEF Inv, TypeOK, GenInv, Admit
  <1>3. CellInv'
    BY DEF Inv, TypeOK, CellInv, Active, Admit
  <1>4. StaleInv'
    BY DEF Inv, TypeOK, WatchInv, PhaseInv, LinkInv, CellInv, StaleInv, Active, Current, Admit,
        flagVars
  <1>5. PendInv'
    BY DEF Inv, TypeOK, PendInv, Admit, Queue, flagVars, sweepVars
  <1>6. LostInv'
    BY AdmitLost
  <1>7. TypeOK' /\ DetachInv' /\ WatchInv' /\ MemberInv' /\ LinkInv'
    BY DEF Inv, TypeOK, DetachInv, WatchInv, MemberInv, LinkInv, Active, Admit, Queue, flagVars,
        sweepVars
  <1> QED BY <1>1, <1>2, <1>3, <1>4, <1>5, <1>6, <1>7 DEF Inv

\* A later write: a head with a live registration is linked or detached, so its
\* stamp follows and it is queued.
LEMMA AdvanceLost ==
  ASSUME Inv, NEW a \in Authority, Advance(a)
  PROVE  LostInv'
  <1> SUFFICES ASSUME NEW c \in Cell, Moved(c)', phase'[c] = "registered",
                      ~retired'[c[1]], ~delivered'[c[1]]
               PROVE  \/ pending'[cellHead'[c]]
                      \/ current' = cellHead'[c] /\ c \in chain' /\ Changed(c)'
    BY DEF LostInv
  <1>1. /\ UNCHANGED <<phase, cellHead, cellGen, captured, retired, delivered, current, chain, cutoff>>
        /\ \A b \in Authority : b # a => generation'[b] = generation[b]
        /\ \A h \in Head : pending[h] => pending'[h]
    BY DEF Inv, TypeOK, Advance, Queue, cellVars, flagVars, sweepVars
  <1>2. c[2] \in Authority /\ c[1] \in Reader /\ Active(c) /\ cellHead[c] \in {c[2], Absence}
    BY <1>1, CellPairs DEF Inv, PhaseInv, Active
  <1>3. CASE cellHead[c] = a
    <2>1. first[a] # {} \/ detached[a]
      BY <1>1, <1>2, <1>3 DEF Inv, LinkInv, DetachInv
    <2>2. pending'[a]
      BY <2>1 DEF Advance, Queue, Linked
    <2> QED BY <1>1, <1>3, <2>2
  <1>4. CASE cellHead[c] # a
    <2>1. Moved(c)
      <3>1. CASE c[2] = a
        BY <3>1, <1>2, <1>4 DEF Inv, TypeOK, CellInv, Moved, Active, Advance
      <3>2. CASE c[2] # a
        BY <3>2, <1>1, <1>2 DEF Moved
      <3> QED BY <3>1, <3>2
    <2> QED BY <1>1, <1>2, <2>1 DEF Inv, LostInv, Changed
  <1> QED BY <1>3, <1>4

LEMMA AdvanceStep ==
  ASSUME Inv, NEW a \in Authority, Advance(a)
  PROVE  Inv'
  <1>1. GenInv'
    BY DEF Inv, TypeOK, GenInv, Advance, cellVars
  <1>2. CellInv'
    BY DEF Inv, TypeOK, CellInv, Active, Advance, cellVars
  <1>3. StaleInv'
    BY DEF Inv, TypeOK, DetachInv, PhaseInv, LinkInv, CellInv, StaleInv, Active, Current,
        Advance, Linked, cellVars, flagVars
  <1>4. PendInv'
    BY DEF Inv, TypeOK, PendInv, Advance, Queue, flagVars, sweepVars
  <1>5. LostInv'
    BY AdvanceLost
  <1>6. TypeOK' /\ DetachInv' /\ WatchInv' /\ MemberInv' /\ PhaseInv' /\ LinkInv'
    BY DEF Inv, TypeOK, DetachInv, WatchInv, MemberInv, PhaseInv, LinkInv, Active, Advance,
        Queue, cellVars, flagVars, sweepVars
  <1> QED BY <1>1, <1>2, <1>3, <1>4, <1>5, <1>6 DEF Inv

\* The sweep takes the whole list.
LEMMA SweepBeginStep ==
  ASSUME Inv, SweepBegin
  PROVE  Inv'
  <1>1. PendInv'
    BY DEF Inv, DetachInv, PhaseInv, PendInv, SweepBegin, flagVars
  <1>2. /\ TypeOK' /\ DetachInv' /\ WatchInv' /\ MemberInv' /\ PhaseInv'
        /\ LinkInv' /\ GenInv' /\ CellInv' /\ StaleInv' /\ LostInv'
    BY DEF Inv, TypeOK, DetachInv, WatchInv, MemberInv, PhaseInv, LinkInv, GenInv, CellInv,
        StaleInv, LostInv, Active, Current, Moved, Changed, SweepBegin, cellVars, flagVars
  <1> QED BY <1>1, <1>2 DEF Inv

\* Detaching a head: the cutoff is its stamp, so what has moved shows as Changed.
LEMMA DetachStep ==
  ASSUME Inv, NEW h \in Head, Detach(h)
  PROVE  Inv'
  <1>1. DetachInv'
    BY DEF Inv, TypeOK, DetachInv, Detach
  <1>2. LinkInv'
    BY DEF Inv, DetachInv, LinkInv, Active, Detach, cellVars, flagVars
  <1>3. PendInv'
    BY DEF Inv, TypeOK, PendInv, Detach, flagVars
  <1>4. LostInv'
    BY DEF Inv, LinkInv, CellInv, StaleInv, LostInv, Active, Current, Moved, Changed, Detach,
        cellVars, flagVars
  <1>5. /\ TypeOK' /\ WatchInv' /\ MemberInv'
        /\ PhaseInv' /\ GenInv' /\ CellInv' /\ StaleInv'
    BY DEF Inv, TypeOK, WatchInv, MemberInv, PhaseInv, GenInv, CellInv, StaleInv, Active,
        Current, Detach, cellVars, flagVars
  <1> QED BY <1>1, <1>2, <1>3, <1>4, <1>5 DEF Inv

\* A visit delivers what is Changed and keeps what is not retired.
LEMMA VisitLost ==
  ASSUME Inv, NEW c \in Cell, Visit(c)
  PROVE  LostInv'
  <1> SUFFICES ASSUME NEW d \in Cell, Moved(d)', phase'[d] = "registered",
                      ~retired'[d[1]], ~delivered'[d[1]]
               PROVE  \/ pending'[cellHead'[d]]
                      \/ current' = cellHead'[d] /\ d \in chain' /\ Changed(d)'
    BY DEF LostInv
  <1>1. /\ UNCHANGED <<generation, pending, phase, cellHead, cellGen, captured, retired, current, cutoff>>
        /\ d[1] \in Reader /\ c[1] \in Reader
    BY CellPairs DEF Visit, headVars, cellVars
  <1>2. ~delivered[d[1]]
    BY <1>1 DEF Inv, TypeOK, Visit
  <1>3. \/ pending[cellHead[d]]
        \/ current = cellHead[d] /\ d \in chain /\ Changed(d)
    BY <1>1, <1>2 DEF Inv, LostInv, Moved
  <1>4. Changed(d) /\ ~retired[d[1]] => d # c
    BY <1>1, <1>2 DEF Inv, TypeOK, Visit
  <1> QED BY <1>1, <1>3, <1>4 DEF Visit, Changed

LEMMA VisitTyped ==
  ASSUME Inv, NEW c \in Cell, Visit(c)
  PROVE  TypeOK'
  <1>1. c[1] \in Reader
    BY CellPairs
  <1>2. invalid' \in [Reader -> BOOLEAN]
    BY <1>1 DEF Inv, TypeOK, Visit
  <1>3. delivered' \in [Reader -> BOOLEAN]
    BY <1>1 DEF Inv, TypeOK, Visit
  <1>4. chain' \subseteq Cell /\ live' \subseteq Cell
    BY DEF Inv, TypeOK, Visit
  <1> QED BY <1>2, <1>3, <1>4 DEF Inv, TypeOK, Visit, headVars, cellVars

LEMMA VisitStep ==
  ASSUME Inv, NEW c \in Cell, Visit(c)
  PROVE  Inv'
  <1>1. TypeOK'
    BY VisitTyped
  <1>2. DetachInv'
    BY CellPairs DEF Inv, TypeOK, DetachInv, Visit, headVars
  <1>3. PhaseInv'
    BY DEF Inv, TypeOK, PhaseInv, Active, Visit, cellVars
  <1>4. LostInv'
    BY VisitLost
  <1>5. /\ WatchInv' /\ MemberInv' /\ LinkInv'
        /\ GenInv' /\ CellInv' /\ StaleInv' /\ PendInv'
    BY DEF Inv, WatchInv, MemberInv, LinkInv, GenInv, CellInv, StaleInv, PendInv, Active,
        Current, Visit, headVars, cellVars
  <1> QED BY <1>1, <1>2, <1>3, <1>4, <1>5 DEF Inv

\* What was kept goes back on its head.
LEMMA RelinkStep ==
  ASSUME Inv, Relink
  PROVE  Inv'
  <1>1. DetachInv'
    BY DEF Inv, TypeOK, DetachInv, Relink
  <1>2. LinkInv'
    BY DEF Inv, TypeOK, LinkInv, Active, Relink, cellVars, flagVars
  <1>3. /\ TypeOK' /\ WatchInv' /\ MemberInv' /\ PhaseInv'
        /\ GenInv' /\ CellInv' /\ StaleInv' /\ PendInv' /\ LostInv'
    BY DEF Inv, TypeOK, WatchInv, MemberInv, PhaseInv, GenInv, CellInv, StaleInv, PendInv,
        LostInv, Active, Current, Moved, Relink, cellVars, flagVars
  <1> QED BY <1>1, <1>2, <1>3 DEF Inv

\* The sweep ends with no head detached.
LEMMA SweepEndStep ==
  ASSUME Inv, SweepEnd
  PROVE  Inv'
  <1>1. TypeOK'
    BY DEF Inv, TypeOK, SweepEnd, headVars, cellVars, flagVars
  <1>2. DetachInv'
    BY DEF Inv, DetachInv, SweepEnd, headVars
  <1>3. WatchInv'
    BY DEF Inv, WatchInv, SweepEnd
  <1>4. MemberInv'
    BY DEF Inv, MemberInv, SweepEnd, headVars, cellVars
  <1>5. PhaseInv'
    BY DEF Inv, PhaseInv, Active, SweepEnd, cellVars, flagVars
  <1>6. LinkInv'
    BY DEF Inv, LinkInv, Active, SweepEnd, headVars, cellVars, flagVars
  <1>7. GenInv'
    BY DEF Inv, GenInv, SweepEnd, headVars, cellVars
  <1>8. CellInv'
    BY DEF Inv, CellInv, Active, SweepEnd, headVars, cellVars
  <1>9. StaleInv'
    BY DEF Inv, StaleInv, Current, SweepEnd, headVars, cellVars, flagVars
  <1>10. PendInv'
    BY DEF Inv, PendInv, SweepEnd, headVars, flagVars
  <1>11. LostInv'
    BY DEF Inv, LostInv, Moved, Changed, SweepEnd, headVars, cellVars, flagVars
  <1> QED BY <1>1, <1>2, <1>3, <1>4, <1>5, <1>6, <1>7, <1>8, <1>9, <1>10, <1>11 DEF Inv

LEMMA InvInit == Init => Inv
  <1> SUFFICES ASSUME Init PROVE Inv
    OBVIOUS
  <1>1. TypeOK
    <2>1. /\ generation \in [Authority -> 0 .. MaxGeneration]
          /\ stamp \in [Head -> Nat] /\ cellGen \in [Cell -> Nat] /\ captured \in [Cell -> Nat]
      BY DEF Init
    <2>2. /\ first \in [Head -> SUBSET Cell] /\ retiring \in [Reader -> SUBSET Head]
          /\ pushing \in [Reader -> SUBSET Head]
      BY DEF Init
    <2>3. /\ pending \in [Head -> BOOLEAN] /\ detached \in [Head -> BOOLEAN]
          /\ invalid \in [Reader -> BOOLEAN] /\ delivered \in [Reader -> BOOLEAN]
          /\ retired \in [Reader -> BOOLEAN]
      BY DEF Init
    <2>4. /\ phase \in [Cell -> {"unread", "captured", "registered", "late"}]
          /\ cellHead \in [Cell -> Head \cup {None}]
      BY DEF Init
    <2> QED BY <2>1, <2>2, <2>3, <2>4 DEF Init, TypeOK
  <1>2. DetachInv /\ WatchInv /\ MemberInv
    BY DEF Init, DetachInv, WatchInv, MemberInv
  <1>3. PhaseInv /\ LinkInv /\ GenInv /\ CellInv
    BY CellPairs DEF Init, PhaseInv, LinkInv, GenInv, CellInv, Active
  <1>4. StaleInv /\ PendInv /\ LostInv
    BY CellPairs DEF Init, StaleInv, PendInv, LostInv
  <1> QED BY <1>1, <1>2, <1>3, <1>4 DEF Inv

LEMMA InvStep == Inv /\ [Next]_vars => Inv'
  <1> SUFFICES ASSUME Inv, [Next]_vars PROVE Inv'
    OBVIOUS
  <1>1. CASE UNCHANGED vars
    BY <1>1 DEF Inv, TypeOK, DetachInv, WatchInv, MemberInv, PhaseInv, LinkInv, GenInv, CellInv,
        StaleInv, PendInv, LostInv, Active, Current, Moved, Changed,
        vars, headVars, cellVars, flagVars, sweepVars
  <1>2. CASE Next
    <2>1. ASSUME NEW r \in Reader, NEW a \in Authority, Capture(r, a) PROVE Inv'
      BY <2>1, CaptureStep
    <2>2. ASSUME NEW r \in Reader, NEW a \in Authority, activate(r, a) PROVE Inv'
      BY <2>2, ActivateStep
    <2>3. ASSUME NEW r \in Reader, Validate(r) PROVE Inv'
      BY <2>3, ValidateStep
    <2>4. ASSUME NEW r \in Reader, Retire(r) PROVE Inv'
      BY <2>4, RetireStep
    <2>5. ASSUME NEW r \in Reader, NEW h \in Head, RetireQueue(r, h) PROVE Inv'
      BY <2>5, RetireQueueStep
    <2>6. ASSUME NEW r \in Reader, NEW h \in Head, RetirePush(r, h) PROVE Inv'
      BY <2>6, RetirePushStep
    <2>7. ASSUME NEW a \in Authority, Admit(a) PROVE Inv'
      BY <2>7, AdmitStep
    <2>8. ASSUME NEW a \in Authority, Advance(a) PROVE Inv'
      BY <2>8, AdvanceStep
    <2>9. ASSUME NEW h \in Head, Detach(h) PROVE Inv'
      BY <2>9, DetachStep
    <2>10. ASSUME NEW c \in Cell, Visit(c) PROVE Inv'
      BY <2>10, VisitStep
    <2> QED BY <1>2, <2>1, <2>2, <2>3, <2>4, <2>5, <2>6, <2>7, <2>8, <2>9, <2>10,
               SweepBeginStep, RelinkStep, SweepEndStep DEF Next
  <1> QED BY <1>1, <1>2

LEMMA Invariance == Spec => []Inv
  BY InvInit, InvStep, PTL DEF Spec
-----------------------------------------------------------------------------
(* Every reachable state of the registration protocol is well typed: in    *)
(* particular a generation never passes its bound, and what Retire queues  *)
(* and the sweep takes are heads.                                          *)
THEOREM TypeCorrect == Spec => []TypeOK
  <1>1. Inv => TypeOK
    BY DEF Inv
  <1> QED BY <1>1, Invariance, PTL

(* Nothing stale is Valid (ReadSet.Valid, registration.go 311-330), for    *)
(* any number of ReadSets and authorities: a live ReadSet registered on an *)
(* authority that has moved is invalid already (it was late) or one of its *)
(* registrations is no longer current (StaleInv).                          *)
THEOREM StaleNeverValid == Spec => []StaleIsInvalid
  <1>1. Inv => StaleIsInvalid
    <2> SUFFICES ASSUME Inv, NEW c \in Cell, Moved(c), ~retired[c[1]]
                 PROVE  ~Valid(c[1])
      BY DEF StaleIsInvalid
    <2>1. CASE phase[c] = "late"
      BY <2>1 DEF Inv, PhaseInv, Valid
    <2>2. CASE phase[c] = "registered"
      <3>1. ~Current(c)
        BY <2>2 DEF Inv, StaleInv, Moved
      <3> QED BY <3>1, CellPairs DEF Valid
    <2> QED BY <2>1, <2>2 DEF Moved
  <1> QED BY <1>1, Invariance, PTL

(* No change is lost (sweepHead and queue, registration.go 158-174 and     *)
(* 372-449), for any number of ReadSets and authorities: between sweeps, a *)
(* registration whose input moved is delivered or is linked from a head    *)
(* the next sweep will take.                                               *)
THEOREM ChangeNeverLost == Spec => []NoLostChange
  <1>1. Inv => NoLostChange
    <2> SUFFICES ASSUME Inv, ~sweeping, NEW c \in Cell, Moved(c), phase[c] = "registered",
                        ~retired[c[1]], ~delivered[c[1]]
                 PROVE  /\ c \in first[cellHead[c]]
                        /\ cellHead[c] \in queued \cup UNION {pushing[r] : r \in Reader}
      BY DEF NoLostChange
    <2>1. current = None /\ batch = {} /\ chain = {} /\ live = {}
      BY DEF Inv, DetachInv
    <2>2. Active(c) /\ cellHead[c] \in Head
      BY CellPairs DEF Inv, PhaseInv, Active
    <2>3. c \in first[cellHead[c]]
      BY <2>1, <2>2 DEF Inv, LinkInv
    <2>4. pending[cellHead[c]]
      BY <2>1 DEF Inv, LostInv
    <2> QED BY <2>1, <2>2, <2>3, <2>4 DEF Inv, PendInv
  <1> QED BY <1>1, Invariance, PTL
=============================================================================
