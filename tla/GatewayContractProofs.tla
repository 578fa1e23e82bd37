------------------------ MODULE GatewayContractProofs ------------------------
(* What follows from the contract alone, for any number of backups.           *)
EXTENDS GatewayContract, TLAPS

\* An acknowledged backup was reserved, so its ciphertext no longer changes.
AckedKnown == \A b \in acked : copy[b] # "none"

ContractInv == CTypeOK /\ AckedKnown /\ LaneNeverEmpty

LEMMA ContractInit == CInit => ContractInv
  BY DEF CInit, ContractInv, CTypeOK, AckedKnown, LaneNeverEmpty

LEMMA ContractStep == ContractInv /\ [CNext]_cvars => ContractInv'
<1> SUFFICES ASSUME ContractInv, [CNext]_cvars PROVE ContractInv'
  OBVIOUS
<1> USE DEF ContractInv, CTypeOK, AckedKnown, Reserved, Stored
<1>1. ASSUME NEW a \in Artifact, NEW b \in Backup, OpenReservation(a, b)
      PROVE  ContractInv'
  <2>1. CTypeOK' /\ AckedKnown'
    BY <1>1 DEF OpenReservation
  <2>2. ASSUME NEW d \in acked'
        PROVE  \E c \in Backup : Stored(c)' /\ LaneOf[art[c]]' = LaneOf[art[d]]'
    <3>1. d \in acked /\ copy[d] # "none" /\ copy[b] = "none"
      BY <1>1, <2>2 DEF OpenReservation
    <3>2. PICK c \in Backup : Stored(c) /\ LaneOf[art[c]] = LaneOf[art[d]]
      BY <3>1 DEF LaneNeverEmpty
    <3>3. d # b /\ c # b
      BY <3>1, <3>2
    <3>4. Stored(c)' /\ art[c]' = art[c] /\ art[d]' = art[d]
      BY <1>1, <3>2, <3>3 DEF OpenReservation
    <3> QED BY <3>2, <3>4
  <2> QED BY <2>1, <2>2 DEF LaneNeverEmpty
<1>2. ASSUME NEW b \in Backup, StoreBackup(b) \/ Acknowledge(b)
      PROVE  ContractInv'
  <2>1. CTypeOK' /\ AckedKnown'
    BY <1>2 DEF StoreBackup, Acknowledge
  <2>2. /\ Stored(b)' /\ art' = art /\ acked' \subseteq acked \union {b}
        /\ \A c \in Backup : Stored(c) => Stored(c)'
    BY <1>2 DEF StoreBackup, Acknowledge
  <2> QED BY <2>1, <2>2 DEF LaneNeverEmpty
<1>3. ASSUME NEW D \in SUBSET Backup, Retire(D)
      PROVE  ContractInv'
  <2>1. CTypeOK' /\ AckedKnown'
    BY <1>3 DEF Retire
  <2>2. \A c \in Backup \ D : Stored(c) => Stored(c)'
    BY <1>3 DEF Retire
  <2>3. ASSUME NEW d \in acked'
        PROVE  \E c \in Backup : Stored(c)' /\ LaneOf[art[c]]' = LaneOf[art[d]]'
    <3>1. d \in acked /\ art' = art
      BY <1>3, <2>3 DEF Retire
    <3>2. PICK c \in Backup : Stored(c) /\ LaneOf[art[c]] = LaneOf[art[d]]
      BY <3>1 DEF LaneNeverEmpty
    <3>3. PICK e \in Backup \ D : Stored(e) /\ LaneOf[art[e]] = LaneOf[art[c]]
      BY <1>3, <3>2 DEF Retire
    <3> QED BY <2>2, <3>1, <3>2, <3>3
  <2> QED BY <2>1, <2>3 DEF LaneNeverEmpty
<1>4. CASE UNCHANGED cvars
  BY <1>4 DEF cvars, LaneNeverEmpty
<1> QED BY <1>1, <1>2, <1>3, <1>4 DEF CNext

-----------------------------------------------------------------------------

\* A device and class with an acknowledged backup always has a stored one,
\* however many reservations, completions and cleanups there are.
THEOREM LaneNeverEmptied == CSpec => []LaneNeverEmpty
<1>1. CSpec => []ContractInv
  BY ContractInit, ContractStep, PTL DEF CSpec
<1>2. ContractInv => LaneNeverEmpty
  BY DEF ContractInv
<1> QED BY <1>1, <1>2, PTL

-----------------------------------------------------------------------------

ReservationInv == CTypeOK /\ OneReservation

LEMMA ReservationStep == ReservationInv /\ [CNext]_cvars => ReservationInv'
<1> SUFFICES ASSUME ReservationInv, [CNext]_cvars PROVE ReservationInv'
  OBVIOUS
<1> USE DEF ReservationInv, CTypeOK, Reserved
<1>1. ASSUME NEW a \in Artifact, NEW b \in Backup, OpenReservation(a, b)
      PROVE  ReservationInv'
  <2>1. CTypeOK' /\ copy'[b] = "reserved" /\ art'[b] = a
    BY <1>1 DEF OpenReservation
  <2>2. \A c \in Backup \ {b} : copy'[c] = copy[c] /\ art'[c] = art[c]
    BY <1>1 DEF OpenReservation
  <2>3. \A c \in Backup \ {b} : Reserved(c)' => art'[c] # a
    BY <1>1, <2>2 DEF OpenReservation
  <2> QED BY <2>1, <2>2, <2>3 DEF OneReservation
<1>2. CASE UNCHANGED cvars \/ \E b \in Backup : StoreBackup(b) \/ Acknowledge(b)
  BY <1>2 DEF cvars, StoreBackup, Acknowledge, Stored, OneReservation
<1>3. CASE \E D \in SUBSET Backup : Retire(D)
  BY <1>3 DEF Retire, OneReservation
<1> QED BY <1>1, <1>2, <1>3 DEF CNext

\* No ciphertext is ever reserved twice at a time, for any number of devices,
\* ciphertexts and retries.
THEOREM OneReservationAtATime == CSpec => []OneReservation
<1>1. CInit => ReservationInv
  BY DEF CInit, ReservationInv, CTypeOK, OneReservation, Reserved
<1>2. ReservationInv => OneReservation
  BY DEF ReservationInv
<1> QED BY <1>1, <1>2, ReservationStep, PTL DEF CSpec

==============================================================================
