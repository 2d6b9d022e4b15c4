---- MODULE MCUserConsole ----
EXTENDS UserConsole

ClickBounds == [tokens |-> 5, dialogs |-> 5, usage |-> 5, session |-> 4, dashboard |-> 5,
                popovers |-> 5]
====
