---------------------- MODULE MCStorageClientDownload ----------------------
EXTENDS StorageClientDownload
====
