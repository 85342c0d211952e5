------------------------------- MODULE Stores -------------------------------
(***************************************************************************)
(* server/src/store.rs: the allowlist of paired wallets and the watch set  *)
(* of each wallet, each a map in memory with one JSON file.                *)
(*                                                                         *)
(* Every operation holds its store's mutex from the change in memory to    *)
(* the end of the write, so it is one step.  It changes memory FIRST; the  *)
(* write puts the whole map in a temporary file and renames it, so a       *)
(* failed write (written = FALSE) leaves the previous file and does not    *)
(* undo the change in memory.  A wallet without an entry in the watch      *)
(* store has the empty set: no entry is ever empty.                        *)
(***************************************************************************)
EXTENDS FiniteSets

CONSTANTS Wallets, Addresses

VARIABLES
    wallets, walletsDisk,   \* Allowlist.wallets and paired_wallets.json
    sets, setsDisk          \* WatchStore.sets and watch_sets.json

allowVars == <<wallets, walletsDisk>>
watchVars == <<sets, setsDisk>>

StoresOK ==
    /\ wallets \subseteq Wallets
    /\ walletsDisk \subseteq Wallets
    /\ sets \in [Wallets -> SUBSET Addresses]
    /\ setsDisk \in [Wallets -> SUBSET Addresses]

InitStores ==
    /\ wallets = {}
    /\ walletsDisk = {}
    /\ sets = [w \in Wallets |-> {}]
    /\ setsDisk = sets

\* Allowlist::is_paired
IsPaired(w) == w \in wallets

\* write_json_atomic: the file becomes the map, or stays.
Saved(map, disk, written) == IF written THEN map ELSE disk

\* Allowlist::add
Add(w, written) ==
    /\ wallets' = wallets \cup {w}
    /\ walletsDisk' = Saved(wallets', walletsDisk, written)
    /\ UNCHANGED watchVars

\* Mutant: remove changes the memory and leaves the file to the next add.
RemoveInMemory(w, written) ==
    /\ wallets' = wallets \ {w}
    /\ UNCHANGED walletsDisk
    /\ UNCHANGED watchVars

\* Allowlist::remove: the file is written only if the wallet was in memory.
Remove(w, written) ==
    /\ wallets' = wallets \ {w}
    /\ walletsDisk' = IF w \in wallets
                      THEN Saved(wallets', walletsDisk, written)
                      ELSE walletsDisk
    /\ UNCHANGED watchVars

\* Mutant: addresses are added to the set instead of replacing it.
ReplaceAppends(w, addrs, written) ==
    /\ sets' = [sets EXCEPT ![w] = @ \cup addrs]
    /\ setsDisk' = Saved(sets', setsDisk, written)
    /\ UNCHANGED allowVars

\* WatchStore::replace; the empty vector removes the entry.
Replace(w, addrs, written) ==
    /\ sets' = [sets EXCEPT ![w] = addrs]
    /\ setsDisk' = Saved(sets', setsDisk, written)
    /\ UNCHANGED allowVars

\* WatchStore::remove_wallet: the file is written only if there was an entry.
RemoveWallet(w, written) ==
    /\ sets' = [sets EXCEPT ![w] = {}]
    /\ setsDisk' = IF sets[w] # {} THEN Saved(sets', setsDisk, written) ELSE setsDisk
    /\ UNCHANGED allowVars

\* A new process loads both files.
ReloadStores ==
    /\ wallets' = walletsDisk
    /\ sets' = setsDisk
    /\ UNCHANGED <<walletsDisk, setsDisk>>
=============================================================================
