------------------------------- MODULE MCNotify -------------------------------
(* A program that names no id, an OSD that names its tag, and clients that *)
(* name an id they were given, now or before a restart.                    *)
EXTENDS Notify

Ask(r, tag, timeout) == [replaces |-> r, tag |-> tag, timeout |-> timeout]
Clients == {Ask(0, None, "default"), Ask(0, None, "negative"), Ask(0, "osd", "given"),
            Ask(1, None, "given"), Ask(2, "osd", "never")}
=============================================================================
