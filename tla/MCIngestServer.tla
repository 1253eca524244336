--------------------------- MODULE MCIngestServer ---------------------------
EXTENDS IngestServer, TLC

CONSTANTS r1, r2, m1, m2, live, off, game, web

MCCredentials ==
    live :> [known |-> TRUE, enabled |-> TRUE, roles |-> {game}] @@
    off :> [known |-> TRUE, enabled |-> FALSE, roles |-> {game}]

Frames(minutes, experiment, retention) ==
    [key |-> live, role |-> game, ownProject |-> TRUE, wellFormed |-> TRUE,
     experiment |-> experiment, retention |-> retention, minutes |-> minutes]

\* One envelope for each way through the pipeline: both ledgers accept, the second
\* refuses after the first accepted, the first refuses, no evidence at all, too much
\* history for the queue, no history, a role the key may not claim, a disabled key.
MCEnvelopes == {
    Frames({m1}, "ok", "ok"), Frames({m1}, "ok", "refused"), Frames({m2}, "refused", "ok"),
    Frames({m2}, "none", "none"), Frames({m1, m2}, "ok", "none"), Frames({}, "none", "ok"),
    [Frames({m1}, "ok", "none") EXCEPT !.role = web],
    [Frames({m1}, "ok", "none") EXCEPT !.key = off]}
=============================================================================
