--------------------------- MODULE MCConnections ---------------------------
EXTENDS Connections

Plan(clients, fds, trans, size, r, status, quit, faulty) ==
    [clients |-> clients, fds |-> fds, trans |-> trans, size |-> size, restarts |-> r,
     status |-> status, quit |-> quit, faulty |-> faulty]

\* One client with everything else; two with a quit; two with longer files; two
\* with a restart and so few descriptors that they run out; one with two
\* downloads side by side; two with a status server.
MCBounds ==
    { Plan(1, 4, 1, 2, 1, TRUE, TRUE, TRUE),
      Plan(2, 4, 1, 1, 0, FALSE, TRUE, FALSE),
      Plan(2, 4, 1, 2, 0, FALSE, FALSE, FALSE),
      Plan(2, 3, 1, 1, 1, FALSE, FALSE, FALSE),
      Plan(1, 4, 2, 3, 0, FALSE, FALSE, FALSE),
      Plan(2, 4, 1, 0, 0, TRUE, FALSE, TRUE) }
=============================================================================
