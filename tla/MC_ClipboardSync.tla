-------------------------- MODULE MC_ClipboardSync --------------------------
EXTENDS ClipboardSync

CONSTANTS Foo, Bar, Novel    \* model values

\* Sizes in bytes: Novel is beyond the cap as the code compares it, and well
\* below the cap as the documentation means it.
MCSize == [c \in Contents |-> IF c = Novel THEN 500 ELSE 1]

=============================================================================
