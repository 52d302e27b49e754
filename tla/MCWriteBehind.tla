--------------------------- MODULE MCWriteBehind ---------------------------
(* Small instances of WriteBehind for TLC.                                  *)
EXTENDS WriteBehind

CONSTANTS f1, f2

A(fop, fd, off, size, sync, append) ==
    [fop |-> fop, fd |-> fd, offset |-> off, size |-> size, sync |-> sync,
     append |-> append]

Write(fd, off) == A("write", fd, off, 1, FALSE, FALSE)

W0 == Write(f1, 0)
W1 == Write(f1, 1)
Other == Write(f2, 0)
Sync == A("write", f1, 0, 2, TRUE, FALSE)
App == A("write", f2, 0, 1, FALSE, TRUE)
Read == A("read", f1, 0, 2, FALSE, FALSE)
Flush == A("flush", f1, 0, 0, FALSE, FALSE)
Fsync == A("fsync", f1, 0, 0, FALSE, FALSE)
Trunc == A("truncate", f1, 1, 0, FALSE, FALSE)

Stat == A("stat", f1, 0, 0, FALSE, FALSE)

\* Programs of three calls, made in any order: writes that can be collapsed or
\* overlap, through one fd or two, buffered, unbuffered or appending; calls that
\* depend on them.
Mixed == {<<W0, W1, Read>>, <<W0, Other, Flush>>,
          <<W0, Sync, Fsync>>, <<App, W1, Stat>>, <<W1, Trunc, Sync>>}

\* A write in progress, a second one held back, and one that depends on both.
Three == {<<W0, W1, Other>>}

\* A write that fills the window, two that are collapsed, and a read.
Four == {<<Write(f2, 3), W0, W1, Read>>}

Config(window, page) ==
    [window |-> window, page |-> page, aggregate |-> page, trickling |-> TRUE,
     strict |-> FALSE, flush_behind |-> TRUE]

\* A window that is never full and writes that are collapsed; a window that is
\* full after one write, and pages too small for two writes.
Wide == Config(9, 2)
Narrow == Config(0, 1)
WideNarrow == {Wide, Narrow}
OnlyWide == {Wide}

Full == {Config(0, 2)}
=============================================================================
