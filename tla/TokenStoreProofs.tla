-------------------------- MODULE TokenStoreProofs --------------------------
(***************************************************************************)
(* Theorems about TokenStore.tla, for any number of administrators, labels *)
(* and tokens. The inductive invariant IInv says what a command in flight  *)
(* holds in relation to the file, so that a save that overtakes another is *)
(* seen to undo exactly the tokens that the history variable hurt names.   *)
(***************************************************************************)
EXTENDS TokenStore, TLAPS

InFlight(a) == cmd[a].at \in {"written", "flushed"}
Minting(a) == InFlight(a) /\ cmd[a].verb = "gen"
Revoking(a) == InFlight(a) /\ cmd[a].verb = "revoke"

\* A hash names one entry.
OneEntryPerHash(entries) == \A e, f \in entries : e.hash = f.hash => e = f

\* Every file, and every store about to become one, has unique labels and hashes.
Unique ==
  /\ Distinct(file.tokens) /\ Distinct(durable.tokens) /\ Distinct(served)
  /\ OneEntryPerHash(file.tokens) /\ OneEntryPerHash(durable.tokens)
  /\ \A a \in Admins : Distinct(cmd[a].store) /\ OneEntryPerHash(cmd[a].store)

\* No name ever refers to bytes that are not on the disk.
Flushed == file.flushed /\ durable.flushed

\* Hashes are those of tokens that were minted.
Numbered ==
  /\ Hashes(file.tokens) \subseteq 1..minted /\ Hashes(durable.tokens) \subseteq 1..minted
  /\ doomed \subseteq 1..minted
  /\ \A a \in Admins : /\ cmd[a].token \in 0..minted
                       /\ cmd[a].at # "idle" => cmd[a].token # 0
                       /\ Hashes(cmd[a].seen) \subseteq 1..minted
                       /\ Hashes(cmd[a].store) \subseteq 1..minted

\* A token being minted is nowhere but in the store of its command.
Fresh ==
  \A a \in Admins : Minting(a) =>
    /\ cmd[a].token \notin Hashes(file.tokens) \cup Hashes(durable.tokens) \cup doomed
    /\ \A b \in Admins : cmd[a].token \notin Hashes(cmd[b].seen)
    /\ \A b \in Admins \ {a} : cmd[a].token \notin Hashes(cmd[b].store)

\* A command in flight holds what it loaded, with its own change.
StoreShape ==
  \A a \in Admins : InFlight(a) =>
    /\ Hashes(cmd[a].seen) \ doomed \subseteq Hashes(cmd[a].store)
    /\ cmd[a].verb = "gen" =>
         cmd[a].token \in Hashes(cmd[a].store) /\ Hashes(cmd[a].store) \subseteq Hashes(cmd[a].seen) \cup {cmd[a].token}
    /\ cmd[a].verb = "revoke" =>
         cmd[a].token \notin Hashes(cmd[a].store) /\ Hashes(cmd[a].store) \subseteq Hashes(cmd[a].seen)

\* A command that has saved finds its change in the file, or the token is hurt.
SavedShape ==
  \A a \in Admins :
    /\ cmd[a].verb = "revoke" => cmd[a].token \in doomed
    /\ cmd[a].at = "saved" /\ cmd[a].verb = "gen" =>
         cmd[a].token \in Hashes(file.tokens) \cup doomed \cup hurt
    /\ cmd[a].at = "saved" /\ cmd[a].verb = "revoke" =>
         cmd[a].token \notin Hashes(file.tokens) \/ cmd[a].token \in hurt

\* A token reported dead is not in the file, unless it is hurt.
DeadIsGone ==
  dead \subseteq doomed /\ \A t \in dead \ hurt : t \notin Hashes(file.tokens)

\* The client's token was shown, and nobody set out to revoke it.
ClientShape == weave # 0 => weave \in shown \ doomed

IInv ==
  /\ TypeOK
  /\ Unique
  /\ Flushed
  /\ Numbered
  /\ Fresh
  /\ StoreShape
  /\ SavedShape
  /\ DeadIsGone
  /\ ClientShape
  /\ ShownTokenIsStored
  /\ RotationHasNoGap
-----------------------------------------------------------------------------
(* The invariant is inductive: one lemma per action.                        *)

LEMMA InitEstablishes == Init => IInv
<1> SUFFICES ASSUME Init PROVE IInv
  OBVIOUS
<1>1. TypeOK
  BY TokenStoreAssumption DEF Init, TypeOK, Files, Command, Idle
<1>2. Unique /\ Flushed
  BY DEF Init, Idle, Unique, Distinct, OneEntryPerHash, Flushed
<1>3. Numbered
  BY DEF Init, Idle, Numbered, Hashes
<1>4. Fresh /\ StoreShape /\ SavedShape
  BY DEF Init, Idle, Fresh, StoreShape, SavedShape, Minting, InFlight
<1>5. DeadIsGone /\ ClientShape /\ ShownTokenIsStored /\ RotationHasNoGap
  BY DEF Init, DeadIsGone, ClientShape, ShownTokenIsStored, RotationHasNoGap
<1>6. QED
  BY <1>1, <1>2, <1>3, <1>4, <1>5 DEF IInv

\* Steps of the service, its client and the clock leave the file and the commands alone.
LEMMA FileFrame ==
  ASSUME IInv, UNCHANGED <<file, durable, cmd, minted, history>>
  PROVE  (Flushed /\ Numbered /\ Fresh /\ StoreShape /\ SavedShape /\ DeadIsGone /\ ShownTokenIsStored)'
BY DEF IInv, history, Flushed, Numbered, Fresh, Minting, InFlight, StoreShape, SavedShape, DeadIsGone,
   ShownTokenIsStored, Hashes

\* Steps of the commands leave the service alone.
LEMMA ServiceFrame ==
  ASSUME IInv, UNCHANGED <<served, now, weave>>, hurt \subseteq hurt'
  PROVE  RotationHasNoGap'
BY DEF IInv, RotationHasNoGap, Verify, Hashes, Usable, Expired

LEMMA GenPreserves ==
  ASSUME IInv, NEW a \in Admins, NEW l \in Labels, NEW x \in (now + 1)..Never, Gen(a, l, x)
  PROVE  IInv'
<1> USE DEF IInv, history
<1> DEFINE new == NewEntry(l, x)
           store == file.tokens \cup {new}
<1>a. /\ \A f \in file.tokens : f.label # l
      /\ cmd' = [cmd EXCEPT ![a] = [at |-> "written", verb |-> "gen", store |-> store,
                                    seen |-> file.tokens, token |-> minted + 1]]
      /\ minted' = minted + 1
      /\ UNCHANGED <<file, durable, served, now, weave, shown, doomed, dead, hurt>>
  BY DEF Gen, NewEntry, LoadOrEmpty, Add, Save
<1>b. /\ new.label = l /\ new.hash = minted + 1
      /\ Hashes(store) = Hashes(file.tokens) \cup {minted + 1}
      /\ minted + 1 \notin Hashes(file.tokens) \cup Hashes(durable.tokens)
      /\ doomed \subseteq 1..minted
  <2>1. new.label = l /\ new.hash = minted + 1
    BY DEF NewEntry
  <2>2. Hashes(store) = Hashes(file.tokens) \cup {minted + 1}
    BY <2>1 DEF Hashes
  <2>3. minted \in Nat
    BY TokenStoreAssumption DEF TypeOK
  <2>4. minted + 1 \notin Hashes(file.tokens) \cup Hashes(durable.tokens)
    BY <2>3 DEF Numbered
  <2>5. doomed \subseteq 1..minted
    BY DEF Numbered
  <2>6. QED
    BY <2>1, <2>2, <2>4, <2>5
<1>1. TypeOK'
  BY TokenStoreAssumption DEF Gen, NewEntry, LoadOrEmpty, Add, Save, TypeOK, Files, Command, Entry, Tokens, TypeOK, Files, Command
<1>2. Unique'
  <2>1. Distinct(store)
    BY <1>a, <1>b DEF Unique, Distinct
  <2>2. OneEntryPerHash(store)
    <3>1. \A e \in file.tokens : e.hash # new.hash
      BY <1>b DEF Hashes
    <3>2. QED
      BY <3>1 DEF Unique, OneEntryPerHash
  <2>3. QED
    BY <1>a, <2>1, <2>2 DEF Unique, Distinct, OneEntryPerHash, TypeOK
<1>3. Flushed'
  BY DEF Gen, Flushed
<1>4. Numbered'
  <2>1. minted \in Nat
    BY TokenStoreAssumption DEF TypeOK
  <2>2. \A b \in Admins : cmd'[b] = IF b = a THEN cmd'[a] ELSE cmd[b]
    BY <1>a DEF TypeOK
  <2>3. cmd'[a].token = minted + 1 /\ cmd'[a].seen = file.tokens /\ cmd'[a].store = store
    BY <1>a DEF TypeOK
  <2>4. 1..minted \subseteq 1..minted' /\ 0..minted \subseteq 0..minted' /\ minted + 1 \in 1..minted'
    BY <1>a, <2>1
  <2>5. /\ Hashes(file'.tokens) \subseteq 1..minted' /\ Hashes(durable'.tokens) \subseteq 1..minted'
        /\ doomed' \subseteq 1..minted'
    BY <1>a, <2>4 DEF Numbered
  <2>6. ASSUME NEW b \in Admins
        PROVE  /\ cmd'[b].token \in 0..minted'
               /\ cmd'[b].at # "idle" => cmd'[b].token # 0
               /\ Hashes(cmd'[b].seen) \subseteq 1..minted'
               /\ Hashes(cmd'[b].store) \subseteq 1..minted'
    <3>1. CASE b = a
      <4>1. Hashes(file.tokens) \subseteq 1..minted
        BY DEF Numbered
      <4>2. Hashes(store) \subseteq 1..minted'
        BY <1>b, <2>4, <4>1
      <4>3. minted + 1 \in 0..minted' /\ minted + 1 # 0
        BY <1>a, <2>1
      <4>4. QED
        BY <2>3, <2>4, <3>1, <4>1, <4>2, <4>3
    <3>2. CASE b # a
      BY <1>a, <2>1, <2>2, <2>4, <3>2 DEF Numbered
    <3>3. QED
      BY <3>1, <3>2
  <2>7. QED
    BY <2>5, <2>6 DEF Numbered, Hashes
<1>5. Fresh'
  <2>1. minted \in Nat
    BY TokenStoreAssumption DEF TypeOK
  <2>2. \A b \in Admins : cmd'[b] = IF b = a THEN cmd'[a] ELSE cmd[b]
    BY <1>a DEF TypeOK
  <2>3. cmd'[a].token = minted + 1 /\ cmd'[a].seen = file.tokens /\ cmd'[a].store = store
    BY <1>a DEF TypeOK
  <2>4. \A b \in Admins : minted + 1 \notin Hashes(cmd[b].seen) \cup Hashes(cmd[b].store)
    BY <2>1 DEF Numbered
  <2>5. minted + 1 \notin doomed
    BY <1>b, <2>1
  <2>6. ASSUME NEW c \in Admins, Minting(c)'
        PROVE  /\ cmd'[c].token \notin Hashes(file'.tokens) \cup Hashes(durable'.tokens) \cup doomed'
               /\ \A b \in Admins : cmd'[c].token \notin Hashes(cmd'[b].seen)
               /\ \A b \in Admins \ {c} : cmd'[c].token \notin Hashes(cmd'[b].store)
    <3>1. CASE c = a
      BY <1>a, <1>b, <2>2, <2>3, <2>4, <2>5, <3>1
    <3>2. CASE c # a
      <4>1. Minting(c) /\ cmd'[c] = cmd[c]
        BY <2>2, <2>6, <3>2 DEF Minting, InFlight
      <4>2. cmd[c].token # minted + 1
        BY <2>1 DEF Numbered
      <4>3. cmd[c].token \notin Hashes(file.tokens) \cup Hashes(durable.tokens) \cup doomed
        BY <4>1 DEF Fresh
      <4>4. ASSUME NEW b \in Admins PROVE cmd[c].token \notin Hashes(cmd'[b].seen)
        BY <2>2, <2>3, <4>1, <4>3 DEF Fresh
      <4>5. ASSUME NEW b \in Admins \ {c} PROVE cmd[c].token \notin Hashes(cmd'[b].store)
        <5>1. cmd[c].token \notin Hashes(store)
          BY <1>b, <4>2, <4>3
        <5>2. b # a => cmd[c].token \notin Hashes(cmd[b].store)
          BY <4>1 DEF Fresh
        <5>3. QED
          BY <2>2, <2>3, <5>1, <5>2
      <4>6. QED
        BY <1>a, <4>1, <4>3, <4>4, <4>5
    <3>3. QED
      BY <3>1, <3>2
  <2>7. QED
    BY <2>6 DEF Fresh, Minting, InFlight, Hashes
<1>6. StoreShape'
  <2>1. \A b \in Admins : cmd'[b] = IF b = a THEN cmd'[a] ELSE cmd[b]
    BY <1>a DEF TypeOK
  <2>2. /\ cmd'[a].token = minted + 1 /\ cmd'[a].seen = file.tokens
        /\ cmd'[a].store = store /\ cmd'[a].verb = "gen"
    BY <1>a DEF TypeOK
  <2>3. ASSUME NEW b \in Admins, InFlight(b)'
        PROVE  /\ Hashes(cmd'[b].seen) \ doomed' \subseteq Hashes(cmd'[b].store)
               /\ cmd'[b].verb = "gen" =>
                    /\ cmd'[b].token \in Hashes(cmd'[b].store)
                    /\ Hashes(cmd'[b].store) \subseteq Hashes(cmd'[b].seen) \cup {cmd'[b].token}
               /\ cmd'[b].verb = "revoke" =>
                    /\ cmd'[b].token \notin Hashes(cmd'[b].store)
                    /\ Hashes(cmd'[b].store) \subseteq Hashes(cmd'[b].seen)
    <3>1. CASE b = a
      BY <1>a, <1>b, <2>2, <3>1
    <3>2. CASE b # a
      BY <1>a, <2>1, <2>3, <3>2 DEF StoreShape, InFlight
    <3>3. QED
      BY <3>1, <3>2
  <2>4. QED
    BY <2>3 DEF StoreShape, InFlight, Hashes
<1>7. SavedShape'
  BY DEF Gen, Save, SavedShape
<1>8. DeadIsGone'
  BY DEF Gen, DeadIsGone
<1>9. ClientShape'
  BY DEF Gen, ClientShape
<1>10. ShownTokenIsStored'
  BY DEF Gen, ShownTokenIsStored
<1>11. RotationHasNoGap'
  BY <1>a, ServiceFrame
<1>12. QED
  BY <1>1, <1>2, <1>3, <1>4, <1>5, <1>6, <1>7, <1>8, <1>9, <1>10, <1>11

LEMMA RevokePreserves ==
  ASSUME IInv, NEW a \in Admins, NEW l \in Labels, Revoke(a, l)
  PROVE  IInv'
<1> USE DEF IInv, history
<1> DEFINE store == Without(file.tokens, l)
<1>a. PICK e \in file.tokens :
        /\ e.label = l /\ e.hash # weave
        /\ cmd' = [cmd EXCEPT ![a] = [at |-> "written", verb |-> "revoke", store |-> store,
                                      seen |-> file.tokens, token |-> e.hash]]
        /\ doomed' = doomed \cup {e.hash}
        /\ UNCHANGED <<file, durable, served, now, minted, weave, shown, dead, hurt>>
  BY DEF Revoke, LoadOrEmpty, Save
<1>b. /\ Hashes(store) \subseteq Hashes(file.tokens)
      /\ Hashes(file.tokens) \subseteq Hashes(store) \cup {e.hash}
      /\ e.hash \in Hashes(file.tokens) \ Hashes(store)
  BY <1>a DEF Hashes, Without, Unique, Distinct, OneEntryPerHash
<1>c. e \in Entry /\ store \subseteq Entry /\ e.hash \in 1..minted
  BY <1>b DEF TypeOK, Files, Without, Numbered
<1>d. \A b \in Admins : cmd'[b] = IF b = a THEN cmd'[a] ELSE cmd[b]
  BY <1>a DEF TypeOK
<1>e. /\ cmd'[a].token = e.hash /\ cmd'[a].seen = file.tokens
      /\ cmd'[a].store = store /\ cmd'[a].verb = "revoke"
  BY <1>a DEF TypeOK
<1>1. TypeOK'
  <2>1. e.hash \in Tokens /\ e.hash \in 0..MaxTokens
    BY <1>c, TokenStoreAssumption DEF Entry, Tokens
  <2>2. cmd'[a] \in Command
    BY <1>a, <1>c, <2>1 DEF TypeOK, Files, Command
  <2>3. QED
    BY <1>a, <2>1, <2>2 DEF TypeOK
<1>2. Unique'
  BY DEF Revoke, LoadOrEmpty, Without, Save, Unique, Distinct, OneEntryPerHash
<1>3. Flushed'
  BY DEF Revoke, Flushed
<1>4. Numbered'
  <2>1. e.hash \in 0..minted /\ e.hash # 0
    BY <1>c, TokenStoreAssumption DEF TypeOK
  <2>2. ASSUME NEW b \in Admins
        PROVE  /\ cmd'[b].token \in 0..minted'
               /\ cmd'[b].at # "idle" => cmd'[b].token # 0
               /\ Hashes(cmd'[b].seen) \subseteq 1..minted'
               /\ Hashes(cmd'[b].store) \subseteq 1..minted'
    BY <1>a, <1>b, <1>d, <1>e, <2>1 DEF Numbered
  <2>3. QED
    BY <1>a, <1>c, <2>2 DEF Numbered, Hashes
<1>5. Fresh'
  BY DEF Revoke, LoadOrEmpty, Without, Save, Fresh, Minting, InFlight, Hashes
<1>6. StoreShape'
  <2>1. ASSUME NEW b \in Admins, InFlight(b)'
        PROVE  /\ Hashes(cmd'[b].seen) \ doomed' \subseteq Hashes(cmd'[b].store)
               /\ cmd'[b].verb = "gen" =>
                    /\ cmd'[b].token \in Hashes(cmd'[b].store)
                    /\ Hashes(cmd'[b].store) \subseteq Hashes(cmd'[b].seen) \cup {cmd'[b].token}
               /\ cmd'[b].verb = "revoke" =>
                    /\ cmd'[b].token \notin Hashes(cmd'[b].store)
                    /\ Hashes(cmd'[b].store) \subseteq Hashes(cmd'[b].seen)
    BY <1>a, <1>b, <1>d, <1>e, <2>1 DEF StoreShape, InFlight
  <2>2. QED
    BY <2>1 DEF StoreShape, InFlight, Hashes
<1>7. SavedShape'
  BY DEF Revoke, Save, SavedShape
<1>8. DeadIsGone'
  BY DEF Revoke, DeadIsGone
<1>9. ClientShape'
  BY DEF Revoke, ClientShape
<1>10. ShownTokenIsStored'
  BY DEF Revoke, ShownTokenIsStored
<1>11. RotationHasNoGap'
  BY <1>a, ServiceFrame
<1>12. QED
  BY <1>1, <1>2, <1>3, <1>4, <1>5, <1>6, <1>7, <1>8, <1>9, <1>10, <1>11

LEMMA FlushPreserves ==
  ASSUME IInv, NEW a \in Admins, Flush(a)
  PROVE  IInv'
<1> USE DEF IInv, history
<1>1. TypeOK'
  BY DEF Flush, TypeOK, Command, TypeOK, Command
<1>2. Unique'
  BY DEF Flush, Unique
<1>3. Flushed'
  BY DEF Flush, Flushed
<1>4. Numbered'
  BY DEF Flush, Numbered
<1>5. Fresh'
  BY DEF Flush, Fresh, Minting, InFlight
<1>6. StoreShape'
  <2>1. ASSUME NEW b \in Admins, InFlight(b)'
        PROVE  /\ Hashes(cmd'[b].seen) \ doomed' \subseteq Hashes(cmd'[b].store)
               /\ cmd'[b].verb = "gen" =>
                    /\ cmd'[b].token \in Hashes(cmd'[b].store)
                    /\ Hashes(cmd'[b].store) \subseteq Hashes(cmd'[b].seen) \cup {cmd'[b].token}
               /\ cmd'[b].verb = "revoke" =>
                    /\ cmd'[b].token \notin Hashes(cmd'[b].store)
                    /\ Hashes(cmd'[b].store) \subseteq Hashes(cmd'[b].seen)
    <3>1. InFlight(b) /\ doomed' = doomed
      BY <2>1 DEF Flush, InFlight, TypeOK
    <3>2. /\ cmd'[b].seen = cmd[b].seen /\ cmd'[b].store = cmd[b].store
          /\ cmd'[b].verb = cmd[b].verb /\ cmd'[b].token = cmd[b].token
      BY DEF Flush, TypeOK, Command
    <3>3. QED
      BY <3>1, <3>2 DEF StoreShape
  <2>2. QED
    BY <2>1 DEF StoreShape, InFlight, Hashes
<1>7. SavedShape'
  BY DEF Flush, SavedShape
<1>8. DeadIsGone'
  BY DEF Flush, DeadIsGone
<1>9. ClientShape'
  BY DEF Flush, ClientShape
<1>10. ShownTokenIsStored'
  BY DEF Flush, ShownTokenIsStored
<1>11. RotationHasNoGap'
  BY ServiceFrame DEF Flush
<1>12. QED
  BY <1>1, <1>2, <1>3, <1>4, <1>5, <1>6, <1>7, <1>8, <1>9, <1>10, <1>11

LEMMA RenamePreserves ==
  ASSUME IInv, NEW a \in Admins, Rename(a)
  PROVE  IInv'
<1> USE DEF IInv, history
<1>a. /\ cmd[a].at = "flushed" /\ file'.tokens = cmd[a].store
      /\ hurt' = hurt \cup (Hashes(file.tokens) \ Hashes(cmd[a].seen))
                      \cup (Hashes(cmd[a].seen) \ Hashes(file.tokens))
      /\ UNCHANGED <<durable, served, now, minted, weave, shown, doomed, dead>>
  BY DEF Rename, Replace
<1>b. \A b \in Admins : b # a => cmd'[b] = cmd[b]
  BY DEF Rename, Replace, TypeOK
<1>c. /\ cmd'[a].at = "saved" /\ cmd'[a].verb = cmd[a].verb /\ cmd'[a].token = cmd[a].token
      /\ cmd'[a].store = {} /\ cmd'[a].seen = {}
  BY DEF Rename, Replace, TypeOK, Command
<1>d. Hashes(file.tokens) \subseteq Hashes(file'.tokens) \cup doomed \cup hurt'
  BY <1>a DEF StoreShape, InFlight
<1>e. \A t \in Hashes(file'.tokens) \ (Hashes(file.tokens) \cup hurt') : Minting(a) /\ t = cmd[a].token
  <2>1. cmd[a].verb \in {"gen", "revoke"}
    BY DEF TypeOK, Command
  <2>2. QED
    BY <1>a, <2>1 DEF StoreShape, InFlight, Minting
<1>1. TypeOK'
  <2>1. cmd[a].store \subseteq Entry /\ cmd[a].seen \subseteq Entry /\ file.tokens \subseteq Entry
    BY DEF TypeOK, Command, Files
  <2>2. Hashes(file.tokens) \subseteq Tokens /\ Hashes(cmd[a].seen) \subseteq Tokens
    BY <2>1 DEF Hashes, Entry
  <2>3. file' \in Files
    BY <2>1 DEF Rename, Replace, Files
  <2>4. \A b \in Admins : cmd'[b] \in Command
    <3>1. cmd[a] \in Command /\ cmd'[a] = [cmd[a] EXCEPT !.at = "saved", !.store = {}, !.seen = {}]
      BY DEF Rename, Replace, TypeOK
    <3>2. cmd'[a] \in Command
      BY <3>1 DEF Command
    <3>3. ASSUME NEW b \in Admins, b # a PROVE cmd'[b] \in Command
      BY <1>b, <3>3 DEF TypeOK
    <3>4. QED
      BY <3>2, <3>3
  <2>5. cmd' \in [Admins -> Command]
    BY <2>4 DEF Rename, Replace, TypeOK
  <2>6. QED
    BY <1>a, <2>2, <2>3, <2>5 DEF TypeOK
<1>2. Unique'
  BY DEF Rename, Replace, Unique, Distinct, OneEntryPerHash, TypeOK
<1>3. Flushed'
  BY DEF Rename, Replace, Flushed
<1>4. Numbered'
  BY DEF Rename, Replace, Numbered, Hashes, TypeOK
<1>5. Fresh'
  BY DEF Rename, Replace, Fresh, Minting, InFlight, Hashes, TypeOK
<1>6. StoreShape'
  <2>1. ASSUME NEW b \in Admins, InFlight(b)'
        PROVE  /\ Hashes(cmd'[b].seen) \ doomed' \subseteq Hashes(cmd'[b].store)
               /\ cmd'[b].verb = "gen" =>
                    /\ cmd'[b].token \in Hashes(cmd'[b].store)
                    /\ Hashes(cmd'[b].store) \subseteq Hashes(cmd'[b].seen) \cup {cmd'[b].token}
               /\ cmd'[b].verb = "revoke" =>
                    /\ cmd'[b].token \notin Hashes(cmd'[b].store)
                    /\ Hashes(cmd'[b].store) \subseteq Hashes(cmd'[b].seen)
    <3>1. b # a
      BY <1>c, <2>1 DEF InFlight
    <3>2. InFlight(b)
      BY <1>b, <2>1, <3>1 DEF InFlight
    <3>3. QED
      BY <1>a, <1>b, <3>1, <3>2 DEF StoreShape
  <2>2. QED
    BY <2>1 DEF StoreShape, InFlight, Hashes
<1>7. SavedShape'
  <2>1. ASSUME NEW c \in Admins
        PROVE  /\ cmd'[c].verb = "revoke" => cmd'[c].token \in doomed'
               /\ cmd'[c].at = "saved" /\ cmd'[c].verb = "gen" =>
                    cmd'[c].token \in Hashes(file'.tokens) \cup doomed' \cup hurt'
               /\ cmd'[c].at = "saved" /\ cmd'[c].verb = "revoke" =>
                    cmd'[c].token \notin Hashes(file'.tokens) \/ cmd'[c].token \in hurt'
    <3>1. CASE c = a
      BY <1>a, <1>c, <3>1 DEF SavedShape, StoreShape, InFlight
    <3>2. CASE c # a
      <4>1. cmd'[c] = cmd[c] /\ hurt \subseteq hurt'
        BY <1>a, <1>b, <3>2
      <4>2. cmd[c].at = "saved" /\ cmd[c].verb = "revoke" => ~(Minting(a) /\ cmd[c].token = cmd[a].token)
        BY DEF SavedShape, Fresh
      <4>3. QED
        BY <1>a, <1>d, <1>e, <4>1, <4>2 DEF SavedShape
    <3>3. QED
      BY <3>1, <3>2
  <2>2. QED
    BY <2>1 DEF SavedShape, Hashes
<1>8. DeadIsGone'
  BY DEF Rename, Replace, DeadIsGone, Hashes, TypeOK, Command
<1>9. ClientShape'
  BY DEF Rename, Replace, ClientShape
<1>10. ShownTokenIsStored'
  BY DEF Rename, Replace, ShownTokenIsStored, Hashes, TypeOK, Command
<1>11. RotationHasNoGap'
  BY <1>a, ServiceFrame
<1>12. QED
  BY <1>1, <1>2, <1>3, <1>4, <1>5, <1>6, <1>7, <1>8, <1>9, <1>10, <1>11

LEMMA ReportPreserves ==
  ASSUME IInv, NEW a \in Admins, Report(a)
  PROVE  IInv'
<1> USE DEF IInv, history
<1>1. TypeOK'
  <2>1. cmd[a].token \in Tokens
    BY TokenStoreAssumption DEF Report, TypeOK, Numbered, Tokens
  <2>2. Idle \in Command
    BY TokenStoreAssumption DEF Idle, Command
  <2>3. QED
    BY <2>1, <2>2 DEF Report, TypeOK
<1>2. Unique'
  BY DEF Report, Idle, Unique, Distinct, OneEntryPerHash
<1>3. Flushed'
  BY DEF Report, Flushed
<1>4. Numbered'
  BY DEF Report, Idle, Numbered, Hashes, TypeOK
<1>5. Fresh'
  BY DEF Report, Idle, Fresh, Minting, InFlight, Hashes
<1>6. StoreShape'
  BY DEF Report, Idle, StoreShape, InFlight
<1>7. SavedShape'
  BY DEF Report, Idle, SavedShape
<1>8. DeadIsGone'
  <2>1. /\ file' = file /\ hurt' = hurt /\ doomed' = doomed /\ cmd[a].at = "saved"
        /\ dead' = IF cmd[a].verb = "revoke" THEN dead \cup {cmd[a].token} ELSE dead
    BY DEF Report
  <2>2. dead' \subseteq doomed' /\ \A t \in dead' \ hurt' : t \notin Hashes(file'.tokens)
    BY <2>1 DEF DeadIsGone, SavedShape
  <2>3. QED
    BY <2>2 DEF DeadIsGone, Hashes
<1>9. ClientShape'
  BY DEF Report, ClientShape
<1>10. ShownTokenIsStored'
  <2>1. /\ file' = file /\ hurt' = hurt /\ doomed' = doomed /\ cmd[a].at = "saved"
        /\ shown' = IF cmd[a].verb = "gen" THEN shown \cup {cmd[a].token} ELSE shown
    BY DEF Report
  <2>2. shown' \ (doomed' \cup hurt') \subseteq Hashes(file'.tokens)
    BY <2>1 DEF ShownTokenIsStored, SavedShape
  <2>3. QED
    BY <2>2 DEF ShownTokenIsStored, Hashes
<1>11. RotationHasNoGap'
  BY ServiceFrame DEF Report
<1>12. QED
  BY <1>1, <1>2, <1>3, <1>4, <1>5, <1>6, <1>7, <1>8, <1>9, <1>10, <1>11

LEMMA AbortPreserves ==
  ASSUME IInv, NEW a \in Admins, Abort(a)
  PROVE  IInv'
<1> USE DEF IInv, history
<1>1. TypeOK'
  BY TokenStoreAssumption DEF Abort, Idle, TypeOK, Command, TypeOK, Command
<1>2. Unique'
  BY DEF Abort, Idle, Unique, Distinct, OneEntryPerHash
<1>3. Flushed'
  BY DEF Abort, Flushed
<1>4. Numbered'
  BY DEF Abort, Idle, Numbered, Hashes, TypeOK
<1>5. Fresh'
  BY DEF Abort, Idle, Fresh, Minting, InFlight, Hashes
<1>6. StoreShape'
  BY DEF Abort, Idle, StoreShape, InFlight
<1>7. SavedShape'
  BY DEF Abort, Idle, SavedShape
<1>8. DeadIsGone'
  BY DEF Abort, DeadIsGone
<1>9. ClientShape'
  BY DEF Abort, ClientShape
<1>10. ShownTokenIsStored'
  BY DEF Abort, ShownTokenIsStored
<1>11. RotationHasNoGap'
  BY ServiceFrame DEF Abort
<1>12. QED
  BY <1>1, <1>2, <1>3, <1>4, <1>5, <1>6, <1>7, <1>8, <1>9, <1>10, <1>11

LEMMA StartPreserves ==
  ASSUME IInv, Start
  PROVE  IInv'
<1>1. TypeOK'
  BY DEF IInv, history, Start, TypeOK, Files
<1>2. Unique'
  BY DEF IInv, Start, Unique
<1>3. ClientShape'
  BY DEF IInv, history, Start, ClientShape
<1>4. RotationHasNoGap'
  <2>1. weave # 0 /\ weave \notin hurt => weave \in Hashes(file.tokens)
    BY DEF IInv, ClientShape, ShownTokenIsStored
  <2>2. served' = file.tokens /\ UNCHANGED <<weave, hurt>>
    BY DEF Start, history
  <2>3. QED
    BY <2>1, <2>2 DEF RotationHasNoGap, Verify, Hashes
<1>5. UNCHANGED <<file, durable, cmd, minted, history>>
  BY DEF Start
<1>6. QED
  BY <1>1, <1>2, <1>3, <1>4, <1>5, FileFrame DEF IInv

LEMMA StopPreserves ==
  ASSUME IInv, Stop
  PROVE  IInv'
<1>1. TypeOK'
  BY DEF IInv, history, Stop, TypeOK
<1>2. Unique'
  BY DEF IInv, Stop, Unique, Distinct
<1>3. ClientShape'
  BY DEF IInv, history, Stop, ClientShape
<1>4. RotationHasNoGap'
  BY DEF Stop, RotationHasNoGap
<1>5. UNCHANGED <<file, durable, cmd, minted, history>>
  BY DEF Stop
<1>6. QED
  BY <1>1, <1>2, <1>3, <1>4, <1>5, FileFrame DEF IInv

LEMMA SwitchPreserves ==
  ASSUME IInv, NEW t \in Tokens, Switch(t)
  PROVE  IInv'
<1>1. TypeOK'
  BY DEF IInv, history, Switch, TypeOK, Tokens
<1>2. Unique'
  BY DEF IInv, Switch, Unique
<1>3. ClientShape'
  BY DEF history, Switch, ClientShape
<1>4. RotationHasNoGap'
  BY DEF Switch, RotationHasNoGap, Verify
<1>5. UNCHANGED <<file, durable, cmd, minted, history>>
  BY DEF Switch
<1>6. QED
  BY <1>1, <1>2, <1>3, <1>4, <1>5, FileFrame DEF IInv

LEMMA EditPreserves ==
  ASSUME IInv, Edit
  PROVE  IInv'
<1> USE DEF IInv, history
<1>1. TypeOK'
  BY DEF Edit, TypeOK, Files, TypeOK, Files
<1>2. Unique'
  BY DEF Edit, Unique
<1>3. Flushed'
  BY DEF Edit, Flushed
<1>4. Numbered'
  BY DEF Edit, Numbered
<1>5. Fresh'
  BY DEF Edit, Fresh, Minting, InFlight
<1>6. StoreShape'
  BY DEF Edit, StoreShape, InFlight
<1>7. SavedShape'
  BY DEF Edit, SavedShape
<1>8. DeadIsGone'
  BY DEF Edit, DeadIsGone
<1>9. ClientShape'
  BY DEF Edit, ClientShape
<1>10. ShownTokenIsStored'
  BY DEF Edit, ShownTokenIsStored
<1>11. RotationHasNoGap'
  BY ServiceFrame DEF Edit
<1>12. QED
  BY <1>1, <1>2, <1>3, <1>4, <1>5, <1>6, <1>7, <1>8, <1>9, <1>10, <1>11

LEMMA SettlePreserves ==
  ASSUME IInv, Settle
  PROVE  IInv'
<1> USE DEF IInv, history
<1>1. TypeOK'
  BY DEF Settle, TypeOK, TypeOK
<1>2. Unique'
  BY DEF Settle, Unique
<1>3. Flushed'
  BY DEF Settle, Flushed
<1>4. Numbered'
  BY DEF Settle, Numbered
<1>5. Fresh'
  BY DEF Settle, Fresh, Minting, InFlight
<1>6. StoreShape'
  BY DEF Settle, StoreShape, InFlight
<1>7. SavedShape'
  BY DEF Settle, SavedShape
<1>8. DeadIsGone'
  BY DEF Settle, DeadIsGone
<1>9. ClientShape'
  BY DEF Settle, ClientShape
<1>10. ShownTokenIsStored'
  BY DEF Settle, ShownTokenIsStored
<1>11. RotationHasNoGap'
  BY ServiceFrame DEF Settle
<1>12. QED
  BY <1>1, <1>2, <1>3, <1>4, <1>5, <1>6, <1>7, <1>8, <1>9, <1>10, <1>11

LEMMA PowerLossPreserves ==
  ASSUME IInv, PowerLoss
  PROVE  IInv'
<1> USE DEF IInv, history
<1>1. TypeOK'
  <2>1. Idle \in Command
    BY TokenStoreAssumption DEF Idle, Command
  <2>2. file.tokens \subseteq Entry /\ durable.tokens \subseteq Entry
    BY DEF TypeOK, Files
  <2>3. Hashes(file.tokens) \subseteq Tokens /\ Hashes(durable.tokens) \subseteq Tokens
    BY <2>2 DEF Hashes, Entry
  <2>4. file' \in Files /\ durable' \in Files
    BY DEF PowerLoss, TypeOK, Files
  <2>5. hurt' \subseteq Tokens
    BY <2>3 DEF PowerLoss, TypeOK
  <2>6. QED
    BY <2>1, <2>4, <2>5 DEF PowerLoss, TypeOK
<1>2. Unique'
  BY DEF PowerLoss, Idle, Unique, Distinct, OneEntryPerHash
<1>3. Flushed'
  BY DEF PowerLoss, Flushed
<1>4. Numbered'
  BY DEF PowerLoss, Idle, Numbered, Hashes, TypeOK
<1>5. Fresh'
  BY DEF PowerLoss, Idle, Fresh, Minting, InFlight
<1>6. StoreShape'
  BY DEF PowerLoss, Idle, StoreShape, InFlight
<1>7. SavedShape'
  BY DEF PowerLoss, Idle, SavedShape
<1>8. DeadIsGone'
  BY DEF PowerLoss, DeadIsGone, Hashes
<1>9. ClientShape'
  BY DEF PowerLoss, ClientShape
<1>10. ShownTokenIsStored'
  <2>1. Hashes(file.tokens) \subseteq Hashes(file'.tokens) \cup hurt' /\ hurt \subseteq hurt'
    BY DEF PowerLoss, Flushed
  <2>2. shown' \ (doomed' \cup hurt') \subseteq Hashes(file'.tokens)
    BY <2>1 DEF PowerLoss, ShownTokenIsStored
  <2>3. QED
    BY <2>2 DEF ShownTokenIsStored, Hashes
<1>11. RotationHasNoGap'
  BY DEF PowerLoss, RotationHasNoGap
<1>12. QED
  BY <1>1, <1>2, <1>3, <1>4, <1>5, <1>6, <1>7, <1>8, <1>9, <1>10, <1>11

LEMMA TickPreserves ==
  ASSUME IInv, Tick
  PROVE  IInv'
<1>1. TypeOK'
  BY TokenStoreAssumption DEF IInv, history, Tick, TypeOK
<1>2. Unique'
  BY DEF IInv, Tick, Unique
<1>3. ClientShape'
  BY DEF IInv, history, Tick, ClientShape
<1>4. RotationHasNoGap'
  BY DEF IInv, history, Tick, RotationHasNoGap, Verify
<1>5. UNCHANGED <<file, durable, cmd, minted, history>>
  BY DEF Tick
<1>6. QED
  BY <1>1, <1>2, <1>3, <1>4, <1>5, FileFrame DEF IInv

LEMMA StutterPreserves ==
  ASSUME IInv, UNCHANGED vars
  PROVE  IInv'
BY DEF vars, history, IInv, TypeOK, Unique, Distinct, OneEntryPerHash, Flushed, Numbered, Fresh,
   Minting, InFlight, StoreShape, SavedShape, DeadIsGone, ClientShape, ShownTokenIsStored,
   RotationHasNoGap, Verify, Hashes, Usable, Expired

LEMMA NextPreserves == IInv /\ [Next]_vars => IInv'
<1> SUFFICES ASSUME IInv, [Next]_vars PROVE IInv'
  OBVIOUS
<1>1. CASE \E a \in Admins : Run(a)
  BY <1>1, GenPreserves, RevokePreserves, FlushPreserves, RenamePreserves, ReportPreserves, AbortPreserves
     DEF Run
<1>2. CASE Start \/ Stop \/ \E t \in Tokens : Switch(t)
  BY <1>2, StartPreserves, StopPreserves, SwitchPreserves
<1>3. CASE Edit \/ Settle \/ PowerLoss \/ Tick
  BY <1>3, EditPreserves, SettlePreserves, PowerLossPreserves, TickPreserves
<1>4. CASE UNCHANGED vars
  BY <1>4, StutterPreserves
<1>5. QED
  BY <1>1, <1>2, <1>3, <1>4 DEF Next

LEMMA InvariantHolds == Spec => []IInv
BY InitEstablishes, NextPreserves, PTL DEF Spec

-----------------------------------------------------------------------------
(* What follows from it.                                                    *)

\* Type correctness: token numbers and expiries stay in range, and a command holds a store.
THEOREM TypeCorrect == Spec => []TypeOK
<1>1. IInv => TypeOK
  BY DEF IInv
<1>2. QED
  BY <1>1, InvariantHolds, PTL

\* Whatever commands overlap and whenever the power fails, what Save publishes is a file that Load
\* accepts: no label twice (auth/store.go validate and Add).
THEOREM LabelsStayUnique == Spec => []OneTokenPerLabel
<1>1. IInv => OneTokenPerLabel
  BY DEF IInv, Unique, OneTokenPerLabel
<1>2. QED
  BY <1>1, InvariantHolds, PTL

\* A token that runTokenGen has shown is in the file, unless somebody set out to revoke it or an
\* overlapping save or a lost rename dropped it.
THEOREM ShownTokensAreKept == Spec => []ShownTokenIsStored
<1>1. IInv => ShownTokenIsStored
  BY DEF IInv
<1>2. QED
  BY <1>1, InvariantHolds, PTL

\* The rotation of docs/token-management.md never leaves a running service that does not know the
\* client's token.
THEOREM RotationIsGapless == Spec => []RotationHasNoGap
<1>1. IInv => RotationHasNoGap
  BY DEF IInv
<1>2. QED
  BY <1>1, InvariantHolds, PTL

\* What the service makes of tokens changes only when it starts, stops or time passes.
LEMMA ServiceSteps ==
  ASSUME IInv, [Next]_vars
  PROVE  \/ served' = served /\ now' \in Nat /\ now' >= now
         \/ served' = {}
         \/ served' = file.tokens
<1>1. now \in Nat
  BY DEF IInv, TypeOK
<1>2. CASE \E a \in Admins : Run(a)
  BY <1>1, <1>2 DEF Run, Revoke, Gen, Flush, Rename, Replace, Report, Abort
<1>3. CASE Start \/ Stop \/ \E t \in Tokens : Switch(t)
  BY <1>1, <1>3 DEF Start, Stop, Switch
<1>4. CASE Edit \/ Settle \/ PowerLoss \/ Tick
  BY <1>1, <1>4 DEF Edit, Settle, PowerLoss, Tick
<1>5. CASE UNCHANGED vars
  BY <1>1, <1>5 DEF vars
<1>6. QED
  BY <1>2, <1>3, <1>4, <1>5 DEF Next

\* A token reported revoked that the service refuses is not accepted again, however often it restarts.
THEOREM RevokedStaysRevoked == Spec => NoRevival
<1>1. ASSUME IInv, [Next]_vars, NEW t \in dead \ hurt', Verify(t) # "accepted"
      PROVE  Verify(t)' # "accepted"
  <2>1. t \notin Hashes(file.tokens)
    <3>1. hurt \subseteq hurt'
      BY <1>1 DEF Next, Run, Revoke, Gen, Flush, Rename, Replace, Report, Abort, Start, Stop, Switch,
         Edit, Settle, PowerLoss, Tick, vars, history
    <3>2. QED
      BY <1>1, <3>1 DEF IInv, DeadIsGone
  <2>2. CASE served' = served /\ now' \in Nat /\ now' >= now
    <3>1. now \in Nat /\ \A e \in served : e.expiresAt \in Nat
      BY <1>1, TokenStoreAssumption DEF IInv, TypeOK, Entry, Never
    <3>2. \A e \in served : e.hash = t => now >= e.expiresAt
      BY <1>1 DEF Verify, Hashes, Usable, Expired
    <3>3. \A e \in served' : e.hash = t => now' >= e.expiresAt
      BY <2>2, <3>1, <3>2
    <3>4. QED
      BY <3>3 DEF Verify, Hashes, Usable, Expired
  <2>3. CASE served' = {}
    BY <2>3 DEF Verify, Hashes
  <2>4. CASE served' = file.tokens
    BY <2>1, <2>4 DEF Verify, Hashes
  <2>5. QED
    BY <1>1, <2>2, <2>3, <2>4, ServiceSteps
<1>2. IInv /\ [Next]_vars =>
        [\A t \in dead \ hurt' : Verify(t) # "accepted" => Verify(t)' # "accepted"]_vars
  BY <1>1
<1>3. QED
  BY <1>2, InvariantHolds, PTL DEF Spec, NoRevival
=============================================================================
