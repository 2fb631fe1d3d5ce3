--------------------------- MODULE MCDisplayDeps ---------------------------
EXTENDS DisplayDeps

Tools == {"sudo", "apt-get", "brew", "vulkaninfo"}

\* Linux as root or not, with any tools, known or unknown architecture; the others.
MCHosts == [platform : {"linux"}, root : BOOLEAN, known : BOOLEAN, driver : BOOLEAN,
            tools : {{"sudo", "apt-get"}, {"apt-get"}, {"sudo"}, {}, {"sudo", "apt-get", "xvfb-run"}}]
           \cup [platform : {"darwin", "cygwin", "freebsd"}, root : {FALSE}, known : {FALSE},
                 driver : {TRUE}, tools : {{}, {"brew"}, {"brew", "vulkaninfo"}}]
=============================================================================
