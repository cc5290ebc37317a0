------------------------- MODULE MCNotificationPanel -------------------------
(***************************************************************************)
(* One user with two notifications and a third on its way, and another     *)
(* who tries to reach them.                                                *)
(***************************************************************************)
EXTENDS NotificationPanel

CONSTANTS u, v

MCRecipient == [n \in Note |-> u]

Ask(kind, actor, n, unread) ==
    [kind |-> kind, actor |-> actor, note |-> n, unread |-> unread, limit |-> 1]

PanelCalls ==
    {Ask("list", u, 2, FALSE), Ask("list", u, 2, TRUE), Ask("badge", u, 2, FALSE),
     Ask("mark", u, 1, FALSE), Ask("mark", u, 2, FALSE), Ask("mark", v, 2, FALSE),
     Ask("dismiss", u, 2, FALSE)}
=============================================================================
