------------------------------- MODULE MCTui -------------------------------
EXTENDS Tui
CONSTANTS a, b, p
MCRemoteName == [x \in {p} |-> a]
\* One who cleans up, one who tries settings, one who transfers, one who
\* looks at the metrics.
MCUsers == {{"move", "d"}, {"u", "wizard"},
            {"u", "enter", "x", "tab", "retry"}, {"m", "r"}}
MCBrowser == {{"u", "wizard", "move"}}
MCReplacer == {{"move", "d", "u", "enter"}}
MCStored == {[n \in {a, b} |-> 0], [n \in {a, b} |-> 1]}
MCFits == {<<p, "fit">>}
=============================================================================
