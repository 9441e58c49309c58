-------------------- MODULE MCLoaders --------------------
EXTENDS LoaderParity, MCFiles
============================================================
