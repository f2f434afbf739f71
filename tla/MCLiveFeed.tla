----------------------------- MODULE MCLiveFeed -----------------------------
\* A console that shows the match and another one that only scores: screens
\* do not influence each other, and a spectator does less than a console.
EXTENDS LiveFeed
=============================================================================
