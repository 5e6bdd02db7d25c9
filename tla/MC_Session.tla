----------------------------- MODULE MC_Session -----------------------------
EXTENDS Session

CONSTANTS M1, M2, Big, R1, R2    \* model values: messages of the loops

\* The controller's loop ends a session with Quit, as the system test does, and
\* one of its messages is beyond MAX_FRAME.
MCCtlPosts == {M1, M2, Quit, Big}

MCCliPosts == {R1, R2}
=============================================================================
