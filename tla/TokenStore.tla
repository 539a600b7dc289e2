----------------------------- MODULE TokenStore -----------------------------
(***************************************************************************)
(* The token file: administrators who mint and revoke with the token       *)
(* commands, each of which loads the file, changes what it loaded and      *)
(* saves it through a temporary file, with no lock between them; the       *)
(* service, which reads the file once when it starts; power losses.        *)
(*                                                                         *)
(* A token stands for its hash, and tokens are numbered as they are        *)
(* minted. A missing file is an empty one: LoadOrEmpty makes it one, and   *)
(* the service starts on neither. A file that does not parse or does not   *)
(* validate is not readable; it gets there, and back, by hand.             *)
(***************************************************************************)
EXTENDS Integers, FiniteSets

CONSTANTS
  Labels,    \* names for tokens
  Admins,    \* who runs token commands
  MaxTokens, \* bound: tokens minted
  Horizon    \* bound: days

ASSUME TokenStoreAssumption == MaxTokens \in Nat /\ Horizon \in Nat

Tokens == 1..MaxTokens
Never == Horizon + 1
Entry == [label: Labels, hash: Tokens, expiresAt: 1..Never]

VARIABLES
  file,     \* the token file: its entries, whether it is readable, whether its bytes are on disk
  durable,  \* the file whose name is on disk: file, or one it replaced
  cmd,      \* the command each administrator is running
  served,   \* entries of the running service's verifier; {} while it is down
  now,      \* days
  minted,   \* tokens minted so far
  weave     \* the token the client presents, 0 if none

\* History variables, read by properties and by the client's choice.
VARIABLES
  shown,    \* tokens an administrator was shown
  doomed,   \* tokens somebody set out to revoke
  dead,     \* tokens whose revocation was reported
  hurt      \* tokens that a stale save or a power loss brought back or dropped

history == <<shown, doomed, dead, hurt>>
vars == <<file, durable, cmd, served, now, minted, weave, history>>

Files == [tokens: SUBSET Entry, readable: BOOLEAN, flushed: BOOLEAN]

\* store is what will be saved, seen what the file held when it was loaded.
Command == [at: {"idle", "written", "flushed", "saved"}, verb: {"gen", "revoke"},
            store: SUBSET Entry, seen: SUBSET Entry, token: 0..MaxTokens]

Idle == [at |-> "idle", verb |-> "gen", store |-> {}, seen |-> {}, token |-> 0]

Hashes(entries) == {e.hash : e \in entries}
Expired(e) == now >= e.expiresAt
Usable(entries) == {e \in entries : ~Expired(e)}

\* What the service makes of a token.
Verify(t) ==
  IF t \notin Hashes(served) THEN "unknown"
  ELSE IF \E e \in Usable(served) : e.hash = t THEN "accepted" ELSE "expired"

Init ==
  /\ file = [tokens |-> {}, readable |-> TRUE, flushed |-> TRUE] /\ durable = file
  /\ cmd = [a \in Admins |-> Idle]
  /\ served = {} /\ now = 0 /\ minted = 0 /\ weave = 0
  /\ shown = {} /\ doomed = {} /\ dead = {} /\ hurt = {}

-----------------------------------------------------------------------------
(* The commands.                                                           *)

\* Mutant: a file that cannot be read is taken for one with no tokens.
LoadedAnyway == {IF file.readable THEN file.tokens ELSE {}}

\* What loading the file can return: nothing when it is an error.
LoadOrEmpty == IF file.readable THEN {file.tokens} ELSE {}

\* Mutant: the label is not looked up.
AddUnchecked(store, e) == {store \cup {e}}

\* Adding refuses a label that is taken.
Add(store, e) == IF \E f \in store : f.label = e.label THEN {} ELSE {store \cup {e}}

\* The store is encoded and written to a temporary file of this command's own.
Save(a, verb, store, t) ==
  cmd' = [cmd EXCEPT ![a] = [at |-> "written", verb |-> verb, store |-> store,
                             seen |-> file.tokens, token |-> t]]

\* What Mint adds: a token nobody has seen.
NewEntry(l, x) == [label |-> l, hash |-> minted + 1, expiresAt |-> x]

\* token gen up to the save. Every refusal comes before the file is touched.
Gen(a, l, x) ==
  /\ cmd[a].at = "idle" /\ minted < MaxTokens
  /\ \E loaded \in LoadOrEmpty : \E store \in Add(loaded, NewEntry(l, x)) :
       Save(a, "gen", store, minted + 1)
  /\ minted' = minted + 1
  /\ UNCHANGED <<file, durable, served, now, weave, history>>

\* Mutant: the tail of the list is not appended again.
WithoutTail(store, l) == {e \in store : \A f \in store : f.label = l => e.hash < f.hash}

\* What is left of a store without the entry of a label.
Without(store, l) == {e \in store : e.label # l}

\* Mutant: the removal is reported without a save.
RevokeUnsaved(a, l) ==
  /\ cmd[a].at = "idle"
  /\ \E store \in LoadOrEmpty : \E e \in store :
       /\ e.label = l /\ e.hash # weave
       /\ doomed' = doomed \cup {e.hash} /\ dead' = dead \cup {e.hash}
  /\ UNCHANGED <<file, durable, cmd, served, now, minted, weave, shown, hurt>>

\* token revoke up to the save. The client's own token is not one that gets revoked.
Revoke(a, l) ==
  /\ cmd[a].at = "idle"
  /\ \E store \in LoadOrEmpty : \E e \in store :
       /\ e.label = l /\ e.hash # weave
       /\ Save(a, "revoke", Without(store, l), e.hash)
       /\ doomed' = doomed \cup {e.hash}
  /\ UNCHANGED <<file, durable, served, now, minted, weave, shown, dead, hurt>>

\* The temporary file's bytes are flushed to the disk.
Flush(a) ==
  /\ cmd[a].at = "written"
  /\ cmd' = [cmd EXCEPT ![a].at = "flushed"]
  /\ UNCHANGED <<file, durable, served, now, minted, weave, history>>

\* Whatever was saved since the store was loaded is undone with it.
Replace(a) ==
  /\ file' = [tokens |-> cmd[a].store, readable |-> TRUE, flushed |-> cmd[a].at = "flushed"]
  /\ hurt' = hurt \cup (Hashes(file.tokens) \ Hashes(cmd[a].seen))
                  \cup (Hashes(cmd[a].seen) \ Hashes(file.tokens))
  /\ cmd' = [cmd EXCEPT ![a].at = "saved", ![a].store = {}, ![a].seen = {}]
  /\ UNCHANGED <<durable, served, now, minted, weave, shown, doomed, dead>>

\* Mutant: the temporary file is renamed without a flush.
RenameUnflushed(a) == cmd[a].at \in {"written", "flushed"} /\ Replace(a)

\* The temporary file replaces the token file.
Rename(a) == cmd[a].at = "flushed" /\ Replace(a)

\* The outcome reaches the administrator.
Report(a) ==
  /\ cmd[a].at = "saved"
  /\ shown' = IF cmd[a].verb = "gen" THEN shown \cup {cmd[a].token} ELSE shown
  /\ dead' = IF cmd[a].verb = "revoke" THEN dead \cup {cmd[a].token} ELSE dead
  /\ cmd' = [cmd EXCEPT ![a] = Idle]
  /\ UNCHANGED <<file, durable, served, now, minted, weave, doomed, hurt>>

\* A step of a save fails, the output cannot be written, or the command is killed.
Abort(a) ==
  /\ cmd[a].at # "idle"
  /\ cmd' = [cmd EXCEPT ![a] = Idle]
  /\ UNCHANGED <<file, durable, served, now, minted, weave, history>>

Run(a) ==
  \/ \E l \in Labels : Revoke(a, l) \/ \E x \in (now + 1)..Never : Gen(a, l, x)
  \/ Flush(a) \/ Rename(a) \/ Report(a) \/ Abort(a)

-----------------------------------------------------------------------------
(* The service, its client and the machine.                                *)

\* The service starts on a file it can read and with a token it would accept.
Start ==
  /\ served = {} /\ file.readable /\ Usable(file.tokens) # {}
  /\ served' = file.tokens
  /\ UNCHANGED <<file, durable, cmd, now, minted, weave, history>>

Stop ==
  /\ served # {} /\ served' = {}
  /\ UNCHANGED <<file, durable, cmd, now, minted, weave, history>>

\* The client is given a token that was shown, that the service accepts and that is to stay.
Switch(t) ==
  /\ t \in shown \ doomed /\ Verify(t) = "accepted"
  /\ weave' = t
  /\ UNCHANGED <<file, durable, cmd, served, now, minted, history>>

\* The file is edited by hand: its entries are there, but it no longer parses; or it is mended.
Edit ==
  /\ file' = [file EXCEPT !.readable = ~@]
  /\ UNCHANGED <<durable, cmd, served, now, minted, weave, history>>

\* The file's name reaches the disk: at once where directories can be flushed, some time on Windows.
Settle ==
  /\ durable # file /\ durable' = file
  /\ UNCHANGED <<file, cmd, served, now, minted, weave, history>>

\* A file whose bytes were not on disk comes back with none.
PowerLoss ==
  /\ \E f \in {file, durable} :
       /\ file' = IF f.flushed THEN f ELSE [tokens |-> {}, readable |-> TRUE, flushed |-> TRUE]
       /\ durable' = file'
       /\ hurt' = hurt \cup (Hashes(file.tokens) \ Hashes(f.tokens))
                       \cup (Hashes(f.tokens) \ Hashes(file.tokens))
  /\ cmd' = [a \in Admins |-> Idle] /\ served' = {}
  /\ UNCHANGED <<now, minted, weave, shown, doomed, dead>>

Tick ==
  /\ now < Horizon /\ now' = now + 1
  /\ UNCHANGED <<file, durable, cmd, served, minted, weave, history>>

Next ==
  \/ \E a \in Admins : Run(a)
  \/ Start \/ Stop \/ \E t \in Tokens : Switch(t)
  \/ Edit \/ Settle \/ PowerLoss \/ Tick

Spec == Init /\ [][Next]_vars

-----------------------------------------------------------------------------
TypeOK ==
  /\ file \in Files /\ durable \in Files
  /\ cmd \in [Admins -> Command]
  /\ served \subseteq Entry
  /\ now \in 0..Horizon /\ minted \in 0..MaxTokens /\ weave \in 0..MaxTokens
  /\ shown \subseteq Tokens /\ doomed \subseteq Tokens /\ dead \subseteq Tokens /\ hurt \subseteq Tokens

\* However the commands interleave and whatever the power does, the file never
\* has two entries with one label, nor the service: Load refuses such a file, and
\* Revoke would remove the first of them only.
Distinct(entries) == \A e, f \in entries : e.label = f.label => e = f
OneTokenPerLabel == Distinct(file.tokens) /\ Distinct(durable.tokens) /\ Distinct(served)

\* A token that was shown is in the file until somebody sets out to revoke it. What undoes this is
\* an overlapping command or a rename that did not reach the disk; a failed command, a file that
\* does not parse and bytes that did not reach the disk do not.
ShownTokenIsStored == shown \ (doomed \cup hurt) \subseteq Hashes(file.tokens)

\* A token whose revocation was reported may be accepted until the service restarts, but once it
\* is refused it is not accepted again.
NoRevival ==
  [][\A t \in dead \ hurt' : Verify(t) # "accepted" => Verify(t)' # "accepted"]_vars

\* Minting, restarting, switching the client, revoking and restarting leaves no moment when a
\* running service does not know the client's token.
RotationHasNoGap ==
  served # {} /\ weave # 0 /\ weave \notin hurt => Verify(weave) # "unknown"
=============================================================================
