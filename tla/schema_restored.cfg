SPECIFICATION Spec
PROPERTY
    SchemaComplete
