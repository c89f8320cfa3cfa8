----------------------------- MODULE MCConsole -----------------------------
EXTENDS Console
MCWords == {"", "half", "long", "help", "show", "quit", "nslookup", "ping", "scan",
            "acl_debug", "update", "reset"}
=============================================================================
