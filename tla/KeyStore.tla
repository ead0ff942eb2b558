------------------------------ MODULE KeyStore ------------------------------
(***************************************************************************)
(* The master key in the operating system's credential store, as several   *)
(* regurgitate processes obtain it (SystemKeyProvider::get_or_create) and  *)
(* then seal rows with it.  The credential store offers a get and a set;   *)
(* there is no compare-and-set, and no lock is taken around the two.       *)
(***************************************************************************)
CONSTANTS
  Processes,
  Keys,         \* the values MasterKey::generate may return
  RowIds,
  None

ASSUME KeyAssumption == None \notin Keys

VARIABLES
  secret,       \* the credential store's entry, or None
  generated,    \* keys generated so far
  pc,           \* the next call of each process
  key,          \* the key it holds, or None
  rows          \* stored rows: row id -> the key it is sealed with, or None

vars == <<secret, generated, pc, key, rows>>

TypeOK ==
  /\ secret \in Keys \cup {None}
  /\ generated \in SUBSET Keys
  /\ pc \in [Processes -> {"idle", "read", "set", "verify", "write"}]
  /\ key \in [Processes -> Keys \cup {None}]
  /\ rows \in [RowIds -> Keys \cup {None}]
  /\ \A p \in Processes : pc[p] \in {"set", "verify", "write"} => key[p] \in Keys

Init ==
  /\ secret = None /\ generated = {}
  /\ pc = [p \in Processes |-> "idle"]
  /\ key = [p \in Processes |-> None]
  /\ rows = [r \in RowIds |-> None]

-----------------------------------------------------------------------------
Goto(p, next) == pc' = [pc EXCEPT ![p] = next]
Hold(p, k) == key' = [key EXCEPT ![p] = k]

Start(p) ==
  /\ pc[p] = "idle"
  /\ Goto(p, "read")
  /\ UNCHANGED <<secret, generated, key, rows>>

(* Faulty variant: an existing key is not used.                            *)
ReadAlwaysCreating(p) ==
  /\ pc[p] = "read"
  /\ \E k \in Keys \ generated : Hold(p, k) /\ generated' = generated \cup {k}
  /\ Goto(p, "set")
  /\ UNCHANGED <<secret, rows>>

(* read_key, and MasterKey::generate when there is none.                   *)
Read(p) ==
  /\ pc[p] = "read"
  /\ \/ /\ secret # None
        /\ Hold(p, secret)
        /\ Goto(p, "write")
        /\ UNCHANGED generated
     \/ /\ secret = None
        /\ \E k \in Keys \ generated : Hold(p, k) /\ generated' = generated \cup {k}
        /\ Goto(p, "set")
  /\ UNCHANGED <<secret, rows>>

Set(p) ==
  /\ pc[p] = "set"
  /\ secret' = key[p]
  /\ Goto(p, "verify")
  /\ UNCHANGED <<generated, key, rows>>

Verify(p) ==
  /\ pc[p] = "verify"
  /\ Hold(p, secret)
  /\ Goto(p, "write")
  /\ UNCHANGED <<secret, generated, rows>>

(* A sealed insertion with the key held; the process may add more.         *)
WriteRow(p) ==
  /\ pc[p] = "write"
  /\ \E r \in RowIds : rows[r] = None /\ rows' = [rows EXCEPT ![r] = key[p]]
  /\ UNCHANGED <<secret, generated, pc, key>>

Exit(p) ==
  /\ pc[p] # "idle"
  /\ Goto(p, "idle")
  /\ Hold(p, None)
  /\ UNCHANGED <<secret, generated, rows>>

Next ==
  \E p \in Processes :
    Start(p) \/ Read(p) \/ Set(p) \/ Verify(p) \/ WriteRow(p) \/ Exit(p)

Spec == Init /\ [][Next]_vars

(* A process starts while no key is stored only when no other is running:   *)
(* the first run of all is over, or has stored its key, before the second.  *)
Setup(p) == pc[p] = "idle" /\ pc'[p] # "idle" =>
              secret # None \/ \A q \in Processes : pc[q] = "idle"

SetupSpec == Init /\ [][Next /\ \A p \in Processes : Setup(p)]_vars

-----------------------------------------------------------------------------
(* Every stored row can be opened with the key the credential store holds: *)
(* otherwise its history is lost for every later process (keyring.rs:      *)
(* "concurrent first-run writers converge on the credential store's final  *)
(* value").                                                                *)
RowsReadable == \A r \in RowIds : rows[r] # None => rows[r] = secret

=============================================================================
