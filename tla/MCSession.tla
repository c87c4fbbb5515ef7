----------------------------- MODULE MCSession -----------------------------
(* Session for TLC.                                                        *)
EXTENDS Session

Use(windowed, extensions, provider, speaks) ==
    [windowed |-> windowed, extensions |-> extensions, provider |-> provider,
     speaks |-> speaks]

\* A device that stays connected and is updated, one that logs meanwhile, one
\* whose control reports its health, one that reports in for a while and sleeps,
\* and two that look for an update and sleep, with health offered and nothing to
\* report it from, and with no extensions at all.
Connected == Use(FALSE, {}, FALSE, {"identify", "update"})
Logging == Use(FALSE, {"logging"}, FALSE, {"update"})
Monitored == Use(FALSE, {"health"}, TRUE, {})
ReportingIn == Use(TRUE, {"health", "logging"}, TRUE, {"extensions_get", "close"})
Unprovided == Use(TRUE, {"health"}, FALSE, {"update"})
Plain == Use(TRUE, {}, FALSE, {"update"})

MCUses == {Connected, Logging, Monitored, ReportingIn, Unprovided, Plain}

============================================================================
