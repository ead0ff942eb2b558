--------------------------- MODULE KeyStoreProofs ---------------------------
(***************************************************************************)
(* When first runs do not overlap, every stored row can be opened with the *)
(* key of the credential store, for any number of processes and rows.      *)
(*                                                                         *)
(* The inductive argument: while no key is stored at most one process runs *)
(* and nothing has been written; a process about to store its key finds    *)
(* none there; whoever writes holds the key that is stored.                *)
(***************************************************************************)
EXTENDS KeyStore, TLAPS

Running(p) == pc[p] # "idle"

FirstAlone ==
  secret = None => /\ \A p, q \in Processes : Running(p) /\ Running(q) => p = q
                   /\ \A r \in RowIds : rows[r] = None

KeysHeld ==
  \A p \in Processes :
    /\ pc[p] = "set" => secret = None
    /\ pc[p] \in {"verify", "write"} => secret # None
    /\ pc[p] = "write" => key[p] = secret

KeyInv == TypeOK /\ FirstAlone /\ KeysHeld /\ RowsReadable

SetupNext == Next /\ \A p \in Processes : Setup(p)

LEMMA InitKeys == Init => KeyInv
  BY KeyAssumption DEF Init, KeyInv, TypeOK, FirstAlone, KeysHeld, RowsReadable, Running

(* One process starts, reads, stores, verifies, writes or exits.           *)
LEMMA KeyStep == KeyInv /\ [SetupNext]_vars => KeyInv'
<1> SUFFICES ASSUME KeyInv, [SetupNext]_vars PROVE KeyInv'
  OBVIOUS
<1> USE KeyAssumption
<1>1. CASE UNCHANGED vars
  BY <1>1 DEF KeyInv, TypeOK, FirstAlone, KeysHeld, RowsReadable, Running, vars
<1>2. ASSUME NEW p \in Processes, Start(p), Setup(p) PROVE KeyInv'
  <2>1. TypeOK' /\ KeysHeld' /\ RowsReadable'
    BY <1>2 DEF KeyInv, TypeOK, KeysHeld, RowsReadable, Start, Goto
  <2>2. FirstAlone'
    BY <1>2 DEF KeyInv, TypeOK, FirstAlone, Running, Start, Goto, Setup
  <2> QED
    BY <2>1, <2>2 DEF KeyInv
<1>3. ASSUME NEW p \in Processes, Read(p) PROVE KeyInv'
  <2>1. TypeOK' /\ KeysHeld' /\ RowsReadable'
    BY <1>3 DEF KeyInv, TypeOK, KeysHeld, RowsReadable, Read, Goto, Hold
  <2>2. FirstAlone'
    BY <1>3 DEF KeyInv, TypeOK, FirstAlone, Running, Read, Goto, Hold
  <2> QED
    BY <2>1, <2>2 DEF KeyInv
<1>4. ASSUME NEW p \in Processes, Set(p) PROVE KeyInv'
  <2>1. TypeOK' /\ secret = None /\ secret' # None
    BY <1>4 DEF KeyInv, TypeOK, KeysHeld, Set, Goto
  <2>2. \A q \in Processes : q # p => pc[q] = "idle"
    BY <1>4, <2>1 DEF KeyInv, FirstAlone, Running, Set
  <2>3. KeysHeld' /\ RowsReadable'
    BY <1>4, <2>1, <2>2 DEF KeyInv, TypeOK, FirstAlone, KeysHeld, RowsReadable, Set, Goto
  <2> QED
    BY <2>1, <2>3 DEF KeyInv, FirstAlone
<1>5. ASSUME NEW p \in Processes, Verify(p) PROVE KeyInv'
  <2>1. secret # None
    BY <1>5 DEF KeyInv, KeysHeld, Verify
  <2> QED
    BY <1>5, <2>1 DEF KeyInv, TypeOK, FirstAlone, KeysHeld, RowsReadable, Verify, Goto, Hold
<1>6. ASSUME NEW p \in Processes, WriteRow(p) PROVE KeyInv'
  BY <1>6 DEF KeyInv, TypeOK, FirstAlone, KeysHeld, RowsReadable, WriteRow
<1>7. ASSUME NEW p \in Processes, Exit(p) PROVE KeyInv'
  <2>1. TypeOK' /\ KeysHeld' /\ RowsReadable'
    BY <1>7 DEF KeyInv, TypeOK, KeysHeld, RowsReadable, Exit, Goto, Hold
  <2>2. FirstAlone'
    BY <1>7 DEF KeyInv, TypeOK, FirstAlone, Running, Exit, Goto
  <2> QED
    BY <2>1, <2>2 DEF KeyInv
<1> QED
  BY <1>1, <1>2, <1>3, <1>4, <1>5, <1>6, <1>7 DEF SetupNext, Next

(* keyring.rs: every stored row can be opened with the stored key, provided *)
(* first runs do not overlap.                                              *)
THEOREM Readable == SetupSpec => []RowsReadable
<1>1. KeyInv => RowsReadable
  BY DEF KeyInv
<1> QED
  BY <1>1, InitKeys, KeyStep, PTL DEF SetupSpec, SetupNext

(* Each process holds a key whenever it is about to use one.               *)
THEOREM KeyTypes == SetupSpec => []TypeOK
<1>1. KeyInv => TypeOK
  BY DEF KeyInv
<1> QED
  BY <1>1, InitKeys, KeyStep, PTL DEF SetupSpec, SetupNext

=============================================================================
