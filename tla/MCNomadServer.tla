---------------------------- MODULE MCNomadServer ----------------------------
(***************************************************************************)
(* Instances of NomadServer for TLC.                                       *)
(***************************************************************************)
EXTENDS NomadServer, TLC

WalletSymmetry == Permutations(Wallets)

\* The server learns of a request only when the idle loop first takes it, and
\* no safety property compares the order of publication with that of receipt:
\* publishing is put off until everything published before was received.
PublishJustInTime ==
    net' # net => pc = "idle" /\ \A m \in net : handledAt[m.id] # None

\* The responses on the relays and the ids without one influence no step of
\* the server, and no invariant but their own types mentions them: states that
\* differ only in them are explored once.
ServerView == <<now, net, pc, cur, at, reply, replayVars, buckets, pairingVars, storeVars,
                faults, crashes, handledAt, status, watching, forgotten,
                seenFault, watchFault>>
=============================================================================
