-------------------------------- MODULE MCDriver --------------------------------
EXTENDS Driver

\* One task each, the two together, none, and the two that need no text.
MCCommandLines ==
    {{"--run"}, {"-o"}, {"--run", "-o"}, {"--emit"}, {"--support"}, {}, {"--run", "bad size"}}
================================================================================
