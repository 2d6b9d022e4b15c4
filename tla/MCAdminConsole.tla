---- MODULE MCAdminConsole ----
EXTENDS AdminConsole

ClickBounds == [groups |-> 5, channels |-> 3, settings |-> 5, users |-> 5, usageAdmin |-> 5,
                adminDashboard |-> 5]
====
